---------------------------- MODULE Spec2Model ----------------------------
(***************************************************************************)
(* Model of the mouse connectivity core:                                   *)
(*   RobustConnectionManager (mouse_config/advanced/robust_connection.py)  *)
(*   MouseController         (mouse_config/core/controller.py)             *)
(*   retry_operation / safe_execute (mouse_config/utils/helpers.py)        *)
(*   the protocol encoders   (mouse_config/core/protocols.py)              *)
(*   MouseController         (mouse_config_tool.py), its polling rate      *)
(*   MouseDetector           (mouse_config/core/detection.py)              *)
(*                                                                         *)
(* Threads: the caller threads "app" and "snd", the thread of the          *)
(* reconnect threading.Timer ("rt") and the thread of the health-check     *)
(* threading.Timer ("ht").  Code that runs under connection_lock is        *)
(* stepped statement group by statement group; code that runs without the  *)
(* lock interleaves freely with it.                                        *)
(*                                                                         *)
(* Environment: on the device of a behaviour one strategy (able) is the    *)
(* only one that can succeed; it may still fail at any attempt, and every  *)
(* other strategy fails in any of the ways its code can fail.  One Timer   *)
(* thread of each kind runs at a time: a health-check thread that would    *)
(* start a second one waits until the first has ended, and a second        *)
(* reconnect Timer started while the thread of the first is alive stays    *)
(* pending (second_timer) until it is cancelled.                           *)
(* The interfaces and kernel drivers of the USB device are followed in the *)
(* specification of MouseController.connect / disconnect (SpecTeardown);   *)
(* the manager's specifications follow the handles only.                   *)
(* The setters of MouseController and the buffers of the encoders are     *)
(* followed in SpecSetters, one call with its arguments per behaviour.     *)
(* The scan of the HID bus is followed in SpecDetect, one enumeration per  *)
(* behaviour.                                                              *)
(***************************************************************************)
EXTENDS Integers, Sequences, FiniteSets, TLC

\* ------------------------------------------------------------------ bounds
\* error_count is only ever compared with max_consecutive_errors; the model
\* stops counting at MaxErrorCount.
MaxErrorCount == 3
\* successful reconnections a behaviour may count (reconnect_count)
MaxReconnectCount == 1
\* consecutive failed reconnection attempts that the model counts
MaxFailedAttempts == 5

\* ------------------------------------------------------- program constants
max_reconnect_attempts == 5
reconnect_delay == 2
max_consecutive_errors == 3
auto_reconnect == TRUE
DefaultRetries == 3

\* self.connection_methods, in order of preference
connection_methods ==
    << "hid_standard", "hid_path", "hid_all_interfaces",
       "usb_direct", "usb_detach_driver", "usb_raw" >>

NumMethods == Len(connection_methods)

\* ----------------------------------------------------------------- threads
Admin == "app"
Sender == "snd"
Callers == {Admin, Sender}
RT == "rt"
HT == "ht"
Threads == Callers \cup {RT, HT}

States == {"disconnected", "connecting", "connected", "error", "reconnecting"}

VARIABLES
    state,               \* RobustConnectionManager.state
    controller,          \* manager.controller is set (TRUE) or None (FALSE)
    current_method,      \* manager.current_method: 0 = None, else index
    metrics,             \* error_count, reconnect_count, connection_method
    total_commands_sent,
    total_commands_succeeded,
    lock,                \* holder of connection_lock, or "none"
    reconnect_timer,     \* "none" | "cur" (the timer of thread rt) | "stale"
                         \* | "second" (the second timer)
    second_timer,        \* a second reconnect Timer, started while the thread
                         \* of the first was in its attempt, is pending
    health_check_timer,  \* "none" | "cur" (the timer of thread ht) | "stale"
    timer_delay,         \* delay the pending/running reconnect timer was given
    ctl,                 \* the MouseController object
    pc,                  \* position of each thread
    conn_i,              \* loop index of connect() in progress
    attempt,             \* retry_operation's loop index, per caller
    ret,                 \* value a thread's call has just returned
    inflight,            \* mechanism of a thread's transfer in progress, 0 if none
    tearing,             \* threads inside MouseController.disconnect()
    tried,               \* strategies attempted by the running connect()
    ctl_tried,           \* strategies attempted by MouseController.connect()
    conn_errors,         \* failures recorded by the running connect()
    failed_attempts,     \* consecutive failed reconnection attempts
    able,                \* the one strategy that can succeed on this device
    usb,                 \* the controller's claimed interface and detached-driver
                         \* flag, the device's interfaces and drivers
    req,                 \* the setter or builder call of the application: its
                         \* arguments, the buffer it built last
    scan                 \* the HID bus MouseDetector.scan_devices() queries
                         \* and the list it returned

counters == << total_commands_sent, total_commands_succeeded >>
timers == << reconnect_timer, second_timer, health_check_timer, timer_delay >>
sending == << attempt, inflight >>
hist == << tried, ctl_tried, conn_errors, failed_attempts >>
\* the device under the manager: its working strategy, its interfaces
below == << able, usb, req, scan >>

vars == << state, controller, current_method, metrics, counters, lock,
           timers, ctl, pc, conn_i, sending, ret, tearing, hist, below >>

Min(a, b) == IF a < b THEN a ELSE b

Bump(n, cap) == Min(n + 1, cap)

RECURSIVE Pow2(_)
Pow2(n) == IF n = 0 THEN 1 ELSE 2 * Pow2(n - 1)

\* MouseController.__init__
NewController ==
    [ device |-> FALSE, usb_device |-> FALSE, usb_endpoint_out |-> FALSE,
      connected |-> FALSE, connection_method |-> 0 ]

\* self.interface_claimed = None
None == -1

\* MouseController.__init__: no interface claimed, no driver detached; and
\* the device as the operating system sees it: the interfaces this process
\* has claimed, the interfaces whose kernel driver it has detached; and what
\* the last disconnect() called: the interfaces it released and reattached,
\* whether it disposed the device, which of its calls raised, the
\* interfaces whose driver was detached when it began, and whether no
\* connect() has been called since.
NewUsb ==
    [ interface_claimed |-> None, kernel_driver_detached |-> FALSE,
      claimed |-> {}, detached |-> {},
      released |-> << >>, attached |-> << >>, disposed |-> FALSE,
      raising |-> {}, detached_before |-> {}, torn_down |-> FALSE ]

\* no call of a setter or a builder: its name, the module of the
\* MouseController, the vendor, the number and the colour given, the mode,
\* the header and the payload given to create_report; and no buffer built
NoRequest ==
    [ op |-> "none", impl |-> "core", vendor |-> "Generic", n |-> 0,
      color |-> << >>, mode |-> "Static", head |-> << 0, 0, 0 >>,
      data |-> << >>, buf |-> << >>, fallback |-> FALSE ]

\* the value a call returned: the operation and its result
Ret(op, val) == [ op |-> op, val |-> val ]

NoRet == Ret("none", FALSE)

Constructed ==
    /\ state = "disconnected"
    /\ controller = FALSE
    /\ current_method = 0
    /\ metrics = [ error_count |-> 0, reconnect_count |-> 0,
                   connection_method |-> 0 ]
    /\ total_commands_sent = 0
    /\ total_commands_succeeded = 0
    /\ lock = "none"
    /\ reconnect_timer = "none"
    /\ second_timer = FALSE
    /\ health_check_timer = "none"
    /\ timer_delay = 0
    /\ ctl = NewController
    /\ pc = [ t \in Threads |-> IF t \in Callers THEN "idle" ELSE "off" ]
    /\ conn_i = 0
    /\ attempt = [ t \in Callers |-> 0 ]
    /\ ret = [ t \in Threads |-> NoRet ]
    /\ inflight = [ t \in Callers |-> 0 ]
    /\ tearing = {}
    /\ tried = << >>
    /\ ctl_tried = << >>
    /\ conn_errors = 0
    /\ failed_attempts = 0
    /\ able \in 1 .. NumMethods
    /\ usb = NewUsb

\* the bus of a MouseDetector that has not scanned yet: the library, the
\* entries the enumeration yields, whether it raises after them
NotScanned(lib, bus, fails) ==
    [ lib |-> lib, bus |-> bus, fails |-> fails, scanned |-> FALSE,
      detected_mice |-> << >>, result |-> << >> ]

NoScan == NotScanned(TRUE, << >>, FALSE)

\* no setter is called, no scan is made
Init == Constructed /\ req = NoRequest /\ scan = NoScan

\* --------------------------------------------------- connection strategies
\* What the hid / usb libraries can answer to each strategy.
Outcomes(m) ==
    CASE m \in {1, 2} -> {"ok", "open_fails"}
      [] m = 3 -> {"ok", "open_fails", "probe_fails"}
      [] m \in {4, 5} -> {"ok", "not_found", "config_fails", "no_out_endpoint"}
      [] m = 6 -> {"ok", "not_found", "config_fails"}

\* RobustConnectionManager._try_connection_method and the _connect_* it
\* dispatches to, on controller c: the controller afterwards, and whether
\* the strategy returned True (ok) or raised.
TryConnectionMethod(c, m, o) ==
    CASE m \in {1, 2} ->
            IF o = "ok"
            THEN [ c |-> [c EXCEPT !.device = TRUE], ok |-> TRUE ]
            ELSE [ c |-> c, ok |-> FALSE ]
      [] m = 3 ->
            IF o = "open_fails"
            THEN [ c |-> c, ok |-> FALSE ]
            ELSE [ c |-> [c EXCEPT !.device = TRUE], ok |-> (o = "ok") ]
      [] m = 4 ->
            IF o = "not_found"
            THEN [ c |-> [c EXCEPT !.usb_device = FALSE], ok |-> FALSE ]
            ELSE IF o = "config_fails"
            THEN [ c |-> [c EXCEPT !.usb_device = TRUE], ok |-> FALSE ]
            ELSE LET ep == (o = "ok") \/ c.usb_endpoint_out
                 IN  [ c |-> [c EXCEPT !.usb_device = TRUE,
                                       !.usb_endpoint_out = ep],
                       ok |-> ep ]
      [] m = 5 ->
            IF o = "not_found"
            THEN [ c |-> [c EXCEPT !.usb_device = FALSE], ok |-> FALSE ]
            ELSE IF o = "config_fails"
            THEN [ c |-> [c EXCEPT !.usb_device = TRUE], ok |-> FALSE ]
            ELSE [ c |-> [c EXCEPT !.usb_device = TRUE,
                                   !.usb_endpoint_out =
                                       (o = "ok") \/ c.usb_endpoint_out],
                   ok |-> TRUE ]
      [] m = 6 ->
            IF o = "not_found"
            THEN [ c |-> [c EXCEPT !.usb_device = FALSE], ok |-> FALSE ]
            ELSE [ c |-> [c EXCEPT !.usb_device = TRUE], ok |-> (o = "ok") ]

\* MouseController._connect_*: the same handle effects; a failing strategy
\* returns False instead of raising.
ControllerStrategy(c, m, o) == TryConnectionMethod(c, m, o)

\* a loop that leaves a strategy out
SkipHidPath(m) == IF m = 1 THEN 3 ELSE m + 1

\* a loop that a failing strategy ends
AbortChain(m) == NumMethods + 1

\* "for method in self.connection_methods": the strategy tried after the
\* failure of strategy m (past NumMethods: none is left)
StrategyAfter(m) == m + 1

\* the environment: only strategy `able` can succeed
Possible(m, ok) == ok => m = able

\* MouseController.connect from strategy m on, tr the strategies tried so
\* far: every result the libraries' answers allow.
RECURSIVE ControllerConnectFrom(_, _, _)
ControllerConnectFrom(c, m, tr) ==
    IF m > NumMethods
    THEN { [ c |-> c, tried |-> tr, ok |-> FALSE ] }
    ELSE UNION { LET r == ControllerStrategy(c, m, o)
                 IN  IF ~Possible(m, r.ok)
                     THEN {}
                     ELSE IF r.ok
                     THEN { [ c |-> [r.c EXCEPT !.connected = TRUE,
                                                !.connection_method = m],
                              tried |-> Append(tr, m), ok |-> TRUE ] }
                     ELSE ControllerConnectFrom(r.c, StrategyAfter(m),
                                                Append(tr, m))
                 : o \in Outcomes(m) }

\* ------------------------------------------------------------ small helpers
\* where a thread continues after connect() returns
AfterConnect(t) == IF t = RT THEN "r_after" ELSE "returned"

\* a finished Timer object stays referenced by the manager's field
Finished(field) == IF field = "cur" THEN "stale" ELSE field

\* Timer.cancel(): a timer that has not fired yet never runs
Cancelled(field, tpc) == IF field = "cur" /\ tpc = "pending" THEN "off" ELSE tpc

\* Timer.cancel() of the timer the field names, when that is the second one
CancelledSecond(field, pending) == pending /\ field # "second"

\* a caller's call returns value r
Return(t, r) ==
    /\ pc' = [pc EXCEPT ![t] = "returned"]
    /\ ret' = [ret EXCEPT ![t] = r]

\* the caller has taken the returned value and is ready for its next call
Resume(t) ==
    /\ t \in Callers /\ pc[t] = "returned"
    /\ pc' = [pc EXCEPT ![t] = "idle"]
    /\ ret' = [ret EXCEPT ![t] = NoRet]
    /\ ctl_tried' = IF ret[t].op = "ctl_connect" THEN << >> ELSE ctl_tried
    /\ IF ret[t].op = "connect" /\ lock = "none" /\ pc[RT] # "r_after"
       THEN tried' = << >> /\ conn_errors' = 0
       ELSE UNCHANGED << tried, conn_errors >>
    /\ UNCHANGED << state, controller, current_method, metrics, counters,
                    lock, timers, ctl, conn_i, sending, tearing,
                    failed_attempts, below >>

\* ---------------------------------------------------------- set_controller
SetController(t, c) ==
    /\ t = Admin /\ pc[t] = "idle" /\ lock = "none"
    /\ controller' = c
    /\ IF c /\ ctl.connected
       THEN \* the state is written; the callbacks are yet to be called
            /\ state' = "connected"
            /\ current_method' = ctl.connection_method
            /\ lock' = t
            /\ pc' = [pc EXCEPT ![t] = IF state = "connected"
                                       THEN "sc_same" ELSE "sc_notify"]
            /\ UNCHANGED ret
       ELSE /\ UNCHANGED << state, current_method, lock >>
            /\ Return(t, Ret("set_controller", TRUE))
    /\ UNCHANGED << metrics, counters, timers, ctl, conn_i, sending,
                    tearing, hist, below >>

\* _notify_state_change: "callback(self.state)", the state as it is when
\* the callback is called
NotifyStateChange == state

\* set_controller calls _notify_state_change() and leaves the lock
SetControllerNotify(t) ==
    /\ pc[t] \in {"sc_notify", "sc_same"}
    /\ NotifyStateChange \in States    \* what every callback is called with
    /\ lock' = "none"
    /\ Return(t, Ret("set_controller", TRUE))
    /\ UNCHANGED << state, controller, current_method, metrics, counters,
                    timers, ctl, conn_i, sending, tearing, hist, below >>

\* ------------------------------------------------- MouseController.connect
CtlConnect(t) ==
    /\ t = Admin /\ pc[t] = "idle"
    /\ \E r \in ControllerConnectFrom(ctl, 1, << >>) :
          /\ ctl' = r.c
          /\ ctl_tried' = r.tried
          /\ Return(t, Ret("ctl_connect", r.ok))
    /\ UNCHANGED << state, controller, current_method, metrics, counters,
                    lock, timers, conn_i, sending, tearing, tried,
                    conn_errors, failed_attempts, below >>

\* ------------------------------------------ RobustConnectionManager.connect
\* with self.connection_lock: the early return, or state = CONNECTING
ConnectBegin(t) ==
    /\ \/ t = Admin /\ pc[t] = "idle"
       \/ t = RT /\ pc[t] = "r_connect"
    /\ lock = "none"
    /\ IF state \in {"connected", "connecting"}
       THEN /\ ret' = [ret EXCEPT ![t] = Ret("connect", TRUE)]
            /\ pc' = [pc EXCEPT ![t] = AfterConnect(t)]
            /\ UNCHANGED << state, lock, conn_i, tried, conn_errors >>
       ELSE /\ lock' = t
            /\ state' = "connecting"
            /\ conn_i' = 1
            /\ tried' = << >>
            /\ conn_errors' = 0
            /\ pc' = [pc EXCEPT ![t] = "c_try"]
            /\ UNCHANGED ret
    /\ UNCHANGED << controller, current_method, metrics, counters, timers,
                    ctl, sending, tearing, ctl_tried, failed_attempts, below >>

\* _start_health_monitoring: "if self.health_check_timer: return", else a
\* new Timer is started
StartHealthMonitoring(field) == IF field = "none" THEN "cur" ELSE field

\* one iteration of "for method in self.connection_methods", and, after the
\* last one, the "all methods failed" exit
ConnectTry(t) ==
    /\ pc[t] = "c_try" /\ lock = t
    /\ tried' = Append(tried, conn_i)
    /\ \E o \in Outcomes(conn_i) :
          LET r == IF controller
                   THEN TryConnectionMethod(ctl, conn_i, o)
                   ELSE [ c |-> ctl, ok |-> FALSE ]
              raised == controller /\ ~r.ok
          IN  /\ Possible(conn_i, r.ok)
              /\ ctl' = r.c
              /\ IF r.ok
                 THEN \* CONNECTED, _start_health_monitoring(), return True
                      /\ health_check_timer = "none" => pc[HT] = "off"
                      /\ state' = "connected"
                      /\ current_method' = conn_i
                      /\ metrics' = [metrics EXCEPT !.connection_method = conn_i]
                      /\ health_check_timer' =
                            StartHealthMonitoring(health_check_timer)
                      /\ pc' = [pc EXCEPT
                                  ![t] = AfterConnect(t),
                                  ![HT] = IF health_check_timer = "none"
                                          THEN "pending" ELSE pc[HT]]
                      /\ ret' = [ret EXCEPT ![t] = Ret("connect", TRUE)]
                      /\ lock' = "none"
                      /\ conn_i' = 0
                      /\ UNCHANGED conn_errors
                 ELSE /\ metrics' =
                            IF raised
                            THEN [metrics EXCEPT !.error_count =
                                    Bump(metrics.error_count, MaxErrorCount)]
                            ELSE metrics
                      /\ conn_errors' = IF raised THEN conn_errors + 1
                                        ELSE conn_errors
                      /\ UNCHANGED << current_method, health_check_timer >>
                      /\ IF StrategyAfter(conn_i) > NumMethods
                         THEN /\ state' = "error"
                              /\ lock' = "none"
                              /\ ret' = [ret EXCEPT ![t] = Ret("connect", FALSE)]
                              /\ pc' = [pc EXCEPT ![t] = AfterConnect(t)]
                              /\ conn_i' = 0
                         ELSE /\ conn_i' = StrategyAfter(conn_i)
                              /\ UNCHANGED << state, lock, ret, pc >>
    /\ UNCHANGED << controller, counters, reconnect_timer, second_timer,
                    timer_delay, sending, tearing, ctl_tried,
                    failed_attempts, below >>

\* --------------------------------------- RobustConnectionManager.disconnect
\* disconnect() is called while another thread holds connection_lock: the
\* caller blocks at "with self.connection_lock"
DisconnectWait(t) ==
    /\ t = Admin /\ pc[t] = "idle" /\ lock # "none"
    /\ pc' = [pc EXCEPT ![t] = "d_wait"]
    /\ UNCHANGED << state, controller, current_method, metrics, counters,
                    lock, timers, ctl, conn_i, sending, ret, tearing, hist,
                    below >>

\* with self.connection_lock: state = DISCONNECTED, stop both timers
DisconnectBegin(t) ==
    /\ t = Admin /\ pc[t] \in {"idle", "d_wait"} /\ lock = "none"
    /\ IF state = "disconnected"
       THEN /\ Return(t, Ret("disconnect", TRUE))
            /\ UNCHANGED << state, lock, health_check_timer,
                            reconnect_timer, second_timer, current_method >>
       ELSE /\ state' = "disconnected"
            /\ health_check_timer' = "none"
            /\ reconnect_timer' = "none"
            /\ second_timer' = CancelledSecond(reconnect_timer, second_timer)
            /\ IF controller
               THEN /\ lock' = t
                    /\ pc' = [pc EXCEPT
                                ![t] = "d_teardown",
                                ![HT] = Cancelled(health_check_timer, pc[HT]),
                                ![RT] = Cancelled(reconnect_timer, pc[RT])]
                    /\ UNCHANGED << ret, current_method >>
               ELSE /\ current_method' = 0
                    /\ pc' = [pc EXCEPT
                                ![t] = "returned",
                                ![HT] = Cancelled(health_check_timer, pc[HT]),
                                ![RT] = Cancelled(reconnect_timer, pc[RT])]
                    /\ ret' = [ret EXCEPT ![t] = Ret("disconnect", TRUE)]
                    /\ UNCHANGED lock
    /\ UNCHANGED << controller, metrics, counters, timer_delay, ctl, conn_i,
                    sending, tearing, hist, below >>

\* ---------------------------------------------- MouseController.disconnect
\* entered from manager.disconnect() (under the lock) or from
\* _attempt_reconnect (without it): the HID device is closed and forgotten
TeardownBegin(t) ==
    /\ pc[t] \in {"d_teardown", "r_teardown"}
    /\ IF t = RT /\ ~controller
       THEN \* self.controller became None after the "if self.controller":
            \* the AttributeError ends the timer thread
            /\ pc' = [pc EXCEPT ![t] = "off"]
            /\ reconnect_timer' = Finished(reconnect_timer)
            /\ UNCHANGED << ctl, tearing >>
       ELSE /\ tearing' = tearing \cup {t}
            /\ ctl' = [ctl EXCEPT !.device = FALSE]
            /\ pc' = [pc EXCEPT ![t] = IF t = RT THEN "r_teardown2"
                                       ELSE "d_teardown2"]
            /\ UNCHANGED reconnect_timer
    /\ UNCHANGED << state, controller, current_method, metrics, counters,
                    lock, second_timer, health_check_timer, timer_delay,
                    conn_i, sending, ret, hist, below >>

\* the USB part, connected = False, connection_method = None; then the
\* caller's next statements (manager.disconnect: controller = None,
\* current_method = None, release of the lock)
TeardownEnd(t) ==
    /\ pc[t] \in {"d_teardown2", "r_teardown2"}
    /\ tearing' = tearing \ {t}
    /\ ctl' = [ctl EXCEPT !.usb_device = FALSE, !.connected = FALSE,
                          !.connection_method = 0]
    /\ IF t = RT
       THEN /\ pc' = [pc EXCEPT ![t] = "r_connect"]
            /\ UNCHANGED << controller, current_method, lock, ret >>
       ELSE /\ controller' = FALSE
            /\ current_method' = 0
            /\ lock' = "none"
            /\ Return(t, Ret("disconnect", TRUE))
    /\ UNCHANGED << state, metrics, counters, timers, conn_i, sending, hist,
                    below >>

\* ------------------------------------------------------ transfer mechanisms
\* 1 HID feature report, 2 HID write, 3 interrupt OUT, 4 control transfer
\* SET_REPORT feature (0x0300), 5 control transfer SET_REPORT output (0x0200)
Mechanisms == 1 .. 5

\* the handle a mechanism needs is there
MechAvailable(c, k) ==
    CASE k \in {1, 2} -> c.device
      [] k = 3 -> c.usb_device /\ c.usb_endpoint_out
      [] k \in {4, 5} -> c.usb_device

\* retry_operation(self._send_command_internal, max_retries=retries,
\* delay=0.1, args=(command,)) calls func(args=(command,)): whether
\* _send_command_internal(self, command) accepts that call
SendInternalAccepts == FALSE

\* safe_execute(self.device.send_feature_report, default=False,
\* args=[command]) calls func(args=[command]): whether the HID / endpoint
\* write accepts that call
SafeExecuteAccepts == FALSE

\* RobustConnectionManager._send_command_internal: the first mechanism from
\* k on that is invoked, 0 if none
NextMechanism(c, k) ==
    LET S == { j \in Mechanisms : j >= k /\ MechAvailable(c, j) }
    IN  IF S = {} THEN 0 ELSE CHOOSE j \in S : \A i \in S : j <= i

\* an _attempt_send that starts with the last mechanism
CtlLastMechanism(c, k) ==
    LET S == { j \in Mechanisms : j >= k /\ MechAvailable(c, j) }
    IN  IF S = {} THEN 0 ELSE CHOOSE j \in S : \A i \in S : i <= j

\* MouseController._attempt_send: mechanisms 1..3 go through safe_execute
CtlNextMechanism(c, k) ==
    LET S == { j \in Mechanisms :
                 /\ j >= k /\ MechAvailable(c, j)
                 /\ (j <= 3 => SafeExecuteAccepts) }
    IN  IF S = {} THEN 0 ELSE CHOOSE j \in S : \A i \in S : j <= i

\* self.metrics.error_count += 1, then _handle_command_failure(): += 1 again
AfterFailure(m) ==
    [m EXCEPT !.error_count = Bump(Bump(m.error_count, MaxErrorCount),
                                   MaxErrorCount)]

\* _handle_command_failure: "if error_count >= max_consecutive_errors:
\* self._initiate_reconnect()", then send_command returns False
HandleCommandFailure(t) ==
    IF metrics'.error_count >= max_consecutive_errors
    THEN /\ pc' = [pc EXCEPT ![t] = "s_initiate"]
         /\ UNCHANGED ret
    ELSE Return(t, Ret("send_command", FALSE))

\* the statements of send_command after retry_operation returned `success`
SendUpdate(t, success) ==
    /\ total_commands_sent' = total_commands_sent + 1
    /\ IF success
       THEN /\ total_commands_succeeded' = total_commands_succeeded + 1
            /\ Return(t, Ret("send_command", TRUE))
            /\ UNCHANGED metrics
       ELSE /\ metrics' = AfterFailure(metrics)
            /\ UNCHANGED total_commands_succeeded
            /\ HandleCommandFailure(t)

\* ------------------------------------- RobustConnectionManager.send_command
\* a send_command that starts sending whatever the state is
SendUnchecked(t) ==
    /\ t \in Callers /\ pc[t] = "idle"
    /\ pc' = [pc EXCEPT ![t] = "s_retry"]
    /\ attempt' = [attempt EXCEPT ![t] = 0]
    /\ UNCHANGED << state, controller, current_method, metrics, counters,
                    lock, timers, ctl, conn_i, inflight, ret, tearing, hist,
                    below >>

\* "if self.state != ConnectionState.CONNECTED: return False"
SendCheck(t) ==
    /\ t \in Callers /\ pc[t] = "idle"
    /\ IF state # "connected"
       THEN /\ Return(t, Ret("send_command", FALSE))
            /\ UNCHANGED attempt
       ELSE /\ pc' = [pc EXCEPT ![t] = "s_retry"]
            /\ attempt' = [attempt EXCEPT ![t] = 0]
            /\ UNCHANGED ret
    /\ UNCHANGED << state, controller, current_method, metrics, counters,
                    lock, timers, ctl, conn_i, inflight, tearing, hist, below >>

\* one iteration of retry_operation's loop: func(*args, **kwargs)
SendRetry(t) ==
    /\ pc[t] = "s_retry"
    /\ IF SendInternalAccepts
       THEN \* _send_command_internal runs; whatever it returns is returned
            LET k == IF controller THEN NextMechanism(ctl, 1) ELSE 0
            IN  IF k = 0
                THEN /\ SendUpdate(t, FALSE)
                     /\ UNCHANGED << inflight, attempt >>
                ELSE /\ inflight' = [inflight EXCEPT ![t] = k]
                     /\ pc' = [pc EXCEPT ![t] = "s_xfer"]
                     /\ UNCHANGED << metrics, counters, ret, attempt >>
       ELSE \* TypeError: slept and retried, re-raised on the last attempt
            /\ IF attempt[t] = DefaultRetries - 1
               THEN /\ pc' = [pc EXCEPT ![t] = "s_except"]
                    /\ attempt' = [attempt EXCEPT ![t] = 0]
               ELSE /\ attempt' = [attempt EXCEPT ![t] = attempt[t] + 1]
                    /\ UNCHANGED pc
            /\ UNCHANGED << metrics, counters, ret, inflight >>
    /\ UNCHANGED << state, controller, current_method, lock, timers, ctl,
                    conn_i, tearing, hist, below >>

\* except Exception: error_count += 1, _handle_command_failure(), return False
SendExcept(t) ==
    /\ pc[t] = "s_except"
    /\ metrics' = AfterFailure(metrics)
    /\ HandleCommandFailure(t)
    /\ UNCHANGED << state, controller, current_method, counters, lock,
                    timers, ctl, conn_i, sending, tearing, hist, below >>

\* ------------------------------- RobustConnectionManager._initiate_reconnect
\* "if not auto_reconnect: return; if self.reconnect_timer: return", else
\* state = RECONNECTING and a Timer(reconnect_delay) is started
DoInitiateReconnect(t) ==
    /\ IF ~auto_reconnect \/ reconnect_timer # "none"
       THEN /\ UNCHANGED << state, reconnect_timer, second_timer,
                            timer_delay, failed_attempts >>
            /\ pc' = [pc EXCEPT ![t] = IF t = HT THEN "off" ELSE "returned"]
       ELSE /\ state' = "reconnecting"
            /\ failed_attempts' = 0
            /\ IF pc[RT] = "off"
               THEN /\ reconnect_timer' = "cur"
                    /\ timer_delay' = reconnect_delay
                    /\ pc' = [pc EXCEPT
                                ![t] = IF t = HT THEN "off" ELSE "returned",
                                ![RT] = "pending"]
                    /\ UNCHANGED second_timer
               ELSE \* the thread of the timer started before is still in
                    \* its attempt: this Timer is a second one
                    /\ ~second_timer
                    /\ reconnect_timer' = "second"
                    /\ second_timer' = TRUE
                    /\ pc' = [pc EXCEPT
                                ![t] = IF t = HT THEN "off" ELSE "returned"]
                    /\ UNCHANGED timer_delay
    /\ ret' = [ret EXCEPT
                 ![t] = IF pc[t] = "s_initiate" THEN Ret("send_command", FALSE)
                        ELSE IF t = HT THEN ret[t]
                        ELSE Ret("force_reconnect", TRUE)]
    /\ health_check_timer' = IF t = HT THEN Finished(health_check_timer)
                             ELSE health_check_timer
    /\ UNCHANGED << controller, current_method, metrics, counters, lock, ctl,
                    conn_i, sending, tearing, tried, ctl_tried, conn_errors,
                    below >>

\* reached from send_command's failure path and from _health_check
InitiateReconnect(t) ==
    /\ pc[t] \in {"s_initiate", "h_initiate"}
    /\ DoInitiateReconnect(t)

\* RobustConnectionManager.force_reconnect
ForceReconnect(t) ==
    /\ t = Admin /\ pc[t] = "idle"
    /\ DoInitiateReconnect(t)

\* ------------------------------- RobustConnectionManager._attempt_reconnect
\* the reconnect timer fires: "if self.controller:"
ReconnectFire(t) ==
    /\ t = RT /\ pc[t] = "pending"
    /\ pc' = [pc EXCEPT ![t] = IF controller THEN "r_teardown" ELSE "r_connect"]
    /\ timer_delay' = 0
    /\ UNCHANGED << state, controller, current_method, metrics, counters,
                    lock, reconnect_timer, second_timer, health_check_timer,
                    ctl, conn_i, sending, ret, tearing, hist, below >>

\* RobustConnectionManager._schedule_reconnect_retry: the delay of the next
\* timer
RetryDelay(m) == reconnect_delay * Pow2(Min(m.reconnect_count, 3))

\* after connect() returned: reconnect_count += 1, or
\* _schedule_reconnect_retry()
ReconnectAfter(t) ==
    /\ t = RT /\ pc[t] = "r_after"
    /\ IF ret[t].val
       THEN /\ metrics.reconnect_count < MaxReconnectCount
            /\ metrics' = [metrics EXCEPT !.reconnect_count = @ + 1]
            /\ failed_attempts' = 0
            /\ pc' = [pc EXCEPT ![t] = "off"]
            /\ reconnect_timer' = Finished(reconnect_timer)
            /\ UNCHANGED << state, timer_delay >>
       ELSE /\ failed_attempts' = Bump(failed_attempts, MaxFailedAttempts)
            /\ UNCHANGED metrics
            /\ IF metrics.reconnect_count < max_reconnect_attempts
               THEN /\ reconnect_timer' = "cur"
                    /\ timer_delay' = RetryDelay(metrics)
                    /\ pc' = [pc EXCEPT ![t] = "pending"]
                    /\ UNCHANGED state
               ELSE /\ state' = "error"
                    /\ pc' = [pc EXCEPT ![t] = "off"]
                    /\ reconnect_timer' = Finished(reconnect_timer)
                    /\ UNCHANGED timer_delay
    /\ ret' = [ret EXCEPT ![t] = NoRet]
    /\ tried' = << >>
    /\ conn_errors' = 0
    /\ UNCHANGED << controller, current_method, counters, lock,
                    second_timer, health_check_timer, ctl, conn_i, sending,
                    tearing, ctl_tried, below >>

\* ----------------------------------- RobustConnectionManager._health_check
\* the health-check timer fires: "if self.state != CONNECTED: return"
HealthFire(t) ==
    /\ t = HT /\ pc[t] = "pending"
    /\ IF state # "connected"
       THEN /\ pc' = [pc EXCEPT ![t] = "off"]
            /\ health_check_timer' = Finished(health_check_timer)
       ELSE /\ pc' = [pc EXCEPT ![t] = "h_probe"]
            /\ UNCHANGED health_check_timer
    /\ UNCHANGED << state, controller, current_method, metrics, counters,
                    lock, reconnect_timer, second_timer, timer_delay, ctl,
                    conn_i, sending, ret, tearing, hist, below >>

\* MouseController.test_connection; hid_alive: get_manufacturer_string answers
TestConnection(c, hid_alive) ==
    /\ c.connected
    /\ (c.device /\ hid_alive) \/ c.usb_device

\* "if self.controller and self.controller.test_connection():" then
\* _start_health_monitoring(), else _initiate_reconnect()
HealthProbe(t) ==
    /\ t = HT /\ pc[t] = "h_probe"
    /\ \E hid_alive \in BOOLEAN :
          IF controller /\ TestConnection(ctl, hid_alive)
          THEN \* the callback's own timer is the one the field names, unless
               \* disconnect() has cleared the field meanwhile
               /\ health_check_timer' =
                     StartHealthMonitoring(Finished(health_check_timer))
               /\ pc' = [pc EXCEPT ![t] = IF health_check_timer = "none"
                                          THEN "pending" ELSE "off"]
          ELSE /\ pc' = [pc EXCEPT ![t] = "h_initiate"]
               /\ UNCHANGED health_check_timer
    /\ UNCHANGED << state, controller, current_method, metrics, counters,
                    lock, reconnect_timer, second_timer, timer_delay, ctl,
                    conn_i, sending, ret, tearing, hist, below >>

\* -------------------------------------------- MouseController.send_command
\* "if not self.connected: return False", else _attempt_send through
\* retry_operation, which returns what the first call returns
CtlSendCheck(t) ==
    /\ t \in Callers /\ pc[t] = "idle"
    /\ LET k == CtlNextMechanism(ctl, 1)
       IN  IF ~ctl.connected \/ k = 0
           THEN /\ Return(t, Ret("ctl_send_command", FALSE))
                /\ UNCHANGED inflight
           ELSE /\ inflight' = [inflight EXCEPT ![t] = k]
                /\ pc' = [pc EXCEPT ![t] = "cs_xfer"]
                /\ UNCHANGED ret
    /\ UNCHANGED << state, controller, current_method, metrics, counters,
                    lock, timers, ctl, conn_i, attempt, tearing, hist, below >>

\* a transfer on the handle ends: accepted by the device, or failed, in which
\* case the next mechanism is invoked
TransferEnd(t) ==
    /\ t \in Callers /\ pc[t] \in {"s_xfer", "cs_xfer"} /\ inflight[t] # 0
    /\ \E accepted \in BOOLEAN :
          LET k == IF accepted THEN 0
                   ELSE IF pc[t] = "cs_xfer"
                        THEN CtlNextMechanism(ctl, inflight[t] + 1)
                        ELSE IF controller
                             THEN NextMechanism(ctl, inflight[t] + 1) ELSE 0
          IN  /\ inflight' = [inflight EXCEPT ![t] = k]
              /\ IF k # 0
                 THEN UNCHANGED << pc, ret, metrics, counters >>
                 ELSE IF pc[t] = "cs_xfer"
                      THEN /\ Return(t, Ret("ctl_send_command", accepted))
                           /\ UNCHANGED << metrics, counters >>
                      ELSE SendUpdate(t, accepted)
    /\ UNCHANGED << state, controller, current_method, lock, timers, ctl,
                    conn_i, attempt, tearing, hist, below >>

\* --------------------------------------------------- interfaces and drivers
\* "for interface_num in range(3)" of _connect_usb_detach_driver
DetachInterfaces == 0 .. 2

\* "for i in range(4)" of _connect_usb_raw
Interfaces == 0 .. 3

\* the calls of disconnect() on the USB device that can raise
TeardownCalls == {"release", "attach", "dispose"}

\* the last / the first index of a loop over S that takes its branch
LastOf(S, dflt) ==
    IF S = {} THEN dflt ELSE CHOOSE i \in S : \A j \in S : j <= i

FirstOf(S, dflt) ==
    IF S = {} THEN dflt ELSE CHOOSE i \in S : \A j \in S : i <= j

\* _connect_usb_detach_driver up to "Find endpoints": D the interfaces with
\* an active kernel driver that detach_kernel_driver detaches, K the
\* interfaces that claim_interface can claim
ConnectUsbDetachDriver(u, D, K) ==
    LET det == D \cap DetachInterfaces
        ic  == LastOf(det, u.interface_claimed)
        got == IF ic = None THEN FirstOf(K \cap DetachInterfaces, None)
                            ELSE ic
    IN  [u EXCEPT !.detached = @ \cup det,
                  !.kernel_driver_detached = @ \/ det # {},
                  !.interface_claimed = got,
                  !.claimed = IF got \in K THEN @ \cup {got} ELSE @]

\* _connect_usb_raw after set_configuration()
ConnectUsbRaw(u, D, K) ==
    [u EXCEPT !.detached = @ \cup D,
              !.claimed = @ \cup K,
              !.interface_claimed = IF @ = None THEN FirstOf(K, None) ELSE @,
              !.kernel_driver_detached = TRUE]

\* the interfaces and drivers after strategy m has answered o
UsbAfter(u, m, o, D, K) ==
    CASE m = 5 /\ o # "not_found" -> ConnectUsbDetachDriver(u, D, K)
      [] m = 6 /\ o = "ok" -> ConnectUsbRaw(u, D, K)
      [] m = 6 /\ o = "config_fails" -> [u EXCEPT !.detached = @ \cup D]
      [] OTHER -> u

\* the interfaces a kernel driver can be bound to: none, the first two,
\* all of them
Drivers == { {}, {0, 1}, Interfaces }

\* the interfaces another program can hold: none, the first, all of them
Busy == { {}, {0}, Interfaces }

\* is_kernel_driver_active(i) is true only where a driver is still bound
Detachable(u, m) ==
    IF m \in {5, 6} THEN { S \ u.detached : S \in Drivers } ELSE {{}}

Claimable(m) ==
    IF m \in {5, 6} THEN { Interfaces \ B : B \in Busy } ELSE {{}}

\* MouseController.connect from strategy m on, with the interfaces and
\* drivers of the device
RECURSIVE ConnectUsbFrom(_, _, _, _)
ConnectUsbFrom(c, u, m, tr) ==
    IF m > NumMethods
    THEN { [ c |-> c, u |-> u, tried |-> tr, ok |-> FALSE ] }
    ELSE UNION { LET r == ControllerStrategy(c, m, o)
                     v == UsbAfter(u, m, o, D, K)
                 IN  IF ~Possible(m, r.ok)
                     THEN {}
                     ELSE IF r.ok
                     THEN { [ c |-> [r.c EXCEPT !.connected = TRUE,
                                                !.connection_method = m],
                              u |-> v, tried |-> Append(tr, m),
                              ok |-> TRUE ] }
                     ELSE ConnectUsbFrom(r.c, v, StrategyAfter(m),
                                         Append(tr, m))
                 : o \in Outcomes(m), D \in Detachable(u, m),
                   K \in Claimable(m) }

CtlConnectUsb(t) ==
    /\ t = Admin /\ pc[t] = "idle"
    /\ \E r \in ConnectUsbFrom(ctl, [usb EXCEPT !.torn_down = FALSE], 1,
                                 << >>) :
          /\ ctl' = r.c
          /\ usb' = r.u
          /\ ctl_tried' = r.tried
          /\ Return(t, Ret("ctl_connect", r.ok))
    /\ UNCHANGED << state, controller, current_method, metrics, counters,
                    lock, timers, conn_i, sending, tearing, tried,
                    conn_errors, failed_attempts, able, req,
                    scan >>

\* MouseController.disconnect on controller c with interfaces u, F the
\* calls that raise: the release and everything after it are in one try,
\* only the reattachment has a try of its own; dispose_resources releases
\* every interface the handle still holds
\* a disconnect() that keeps the reference to the USB device
KeepHandle(c) == c

\* "self.usb_device = None"
DropHandle(c) == [c EXCEPT !.usb_device = FALSE]

Disconnect(c, u, F) ==
    LET ic   == u.interface_claimed
        rel  == c.usb_device /\ ic # None
        relx == rel /\ "release" \in F
        att  == c.usb_device /\ ~relx /\ u.kernel_driver_detached
                   /\ ic # None
        attx == att /\ ("attach" \in F \/ ic \notin u.detached)
        dis  == c.usb_device /\ ~relx
        disx == dis /\ "dispose" \in F
        held == IF rel /\ ~relx THEN u.claimed \ {ic} ELSE u.claimed
    IN  [ c |-> [DropHandle(c) EXCEPT !.device = FALSE, !.connected = FALSE,
                                        !.connection_method = 0],
          u |-> [u EXCEPT
                   !.claimed = IF dis /\ ~disx THEN {} ELSE held,
                   !.detached = IF att /\ ~attx THEN @ \ {ic} ELSE @,
                   !.released = IF rel THEN << ic >> ELSE << >>,
                   !.attached = IF att THEN << ic >> ELSE << >>,
                   !.disposed = dis,
                   !.raising = {x \in TeardownCalls :
                                   \/ x = "release" /\ relx
                                   \/ x = "attach" /\ attx
                                   \/ x = "dispose" /\ disx},
                   !.detached_before = u.detached,
                   !.torn_down = TRUE] ]

CtlDisconnect(t) ==
    /\ t = Admin /\ pc[t] = "idle"
    /\ \E F \in SUBSET TeardownCalls :
          LET r == Disconnect(ctl, usb, F)
          IN  /\ ctl' = r.c
              /\ usb' = r.u
    /\ Return(t, Ret("ctl_disconnect", TRUE))
    /\ UNCHANGED << state, controller, current_method, metrics, counters,
                    lock, timers, conn_i, sending, tearing, hist, able, req,
                    scan >>

\* ---------------------------------------------------- protocols: buffers
Bytes == 0 .. 255

\* a ^ b on non-negative integers
RECURSIVE BitXor(_, _)
BitXor(a, b) ==
    IF a = 0 THEN b
    ELSE IF b = 0 THEN a
    ELSE (((a % 2) + (b % 2)) % 2) + 2 * BitXor(a \div 2, b \div 2)

\* bytearray(n)
ByteArray(n) == [ i \in 1 .. n |-> 0 ]

\* buf[i], i counted from 0 as the code counts
At(buf, i) == buf[i + 1]

\* buf[lo] ^ buf[lo + 1] ^ ... ^ buf[hi], the two halves folded apart (^ is
\* associative)
RECURSIVE XorRange(_, _, _)
XorRange(buf, lo, hi) ==
    IF lo > hi THEN 0
    ELSE IF lo = hi THEN At(buf, lo)
    ELSE LET mid == (lo + hi) \div 2
         IN  BitXor(XorRange(buf, lo, mid), XorRange(buf, mid + 1, hi))

\* a call that raised has built no buffer
Raised == << >>

\* RazerProtocol.REPORT_SIZE
REPORT_SIZE == 90

\* "for i, byte in enumerate(data): report[8 + i] = byte"
WithData(report, data) ==
    [ i \in 1 .. Len(report) |->
        IF i >= 9 /\ i - 8 <= Len(data) THEN data[i - 8] ELSE report[i] ]

\* a checksum over the header alone
CrcOfHeader(report) == XorRange(report, 2, 7)

\* "crc = 0; for i in range(2, 88): crc ^= report[i]"
Crc(report) == XorRange(report, 2, 87)

\* RazerProtocol.create_report: a bytearray item outside range(256) raises
\* ValueError, an index past the report raises IndexError
create_report(command_class, command_id, data_size, data) ==
    IF \/ ~({command_class, command_id, data_size} \subseteq Bytes)
       \/ Len(data) > REPORT_SIZE - 8
       \/ \E i \in 1 .. Len(data) : data[i] \notin Bytes
    THEN Raised
    ELSE LET header == [ByteArray(REPORT_SIZE) EXCEPT ![6] = data_size,
                                                      ![7] = command_class,
                                                      ![8] = command_id]
             report == WithData(header, data)
         IN  [report EXCEPT ![89] = Crc(report)]

\* a DPI scaled to the nearest hundred
Rounded(dpi) == (dpi + 50) \div 100

\* int(dpi / 100) for an integer dpi >= 0
Scaled(dpi) == dpi \div 100

\* RazerProtocol.set_dpi(dpi_x): dpi_y = dpi_x, data = bytearray(7)
RazerProtocol_set_dpi(dpi_x) ==
    create_report(4, 5, 7, << 0, Scaled(dpi_x), Scaled(dpi_x), 0, 0, 0, 0 >>)

\* RazerProtocol.set_lift_off_distance
RazerProtocol_set_lift_off_distance(distance) ==
    create_report(4, 6, 2, << 1, distance >>)

\* RazerProtocol.set_led_static
RazerProtocol_set_led_static(r, g, b) ==
    create_report(3, 1, 5, << 1, 1, r, g, b >>)

\* RazerProtocol.set_led_spectrum
RazerProtocol_set_led_spectrum == create_report(3, 4, 2, << 1, 1 >>)

\* GenericProtocol.set_debounce_time
GenericProtocol_set_debounce_time(ms) ==
    IF ms \in Bytes THEN [ByteArray(64) EXCEPT ![1] = 5, ![2] = 1, ![3] = ms]
    ELSE Raised

\* ------------------------------------------------ protocols: polling rate
LegalRates == {125, 250, 500, 1000}

\* protocol_map of MouseController._get_protocol
Vendors ==
    {"Razer", "Logitech", "SteelSeries", "Generic", "CyberpowerPC", "iBuyPower"}

\* the rate_map of each set_poll_rate and the second argument of its get
rate_map(vendor) ==
    CASE vendor \in {"Razer", "Logitech", "CyberpowerPC"} ->
             [ map |-> (125 :> 8) @@ (250 :> 4) @@ (500 :> 2) @@ (1000 :> 1),
               default |-> 1 ]
      [] vendor \in {"SteelSeries", "Generic", "iBuyPower"} ->
             [ map |-> (125 :> 3) @@ (250 :> 2) @@ (500 :> 1) @@ (1000 :> 0),
               default |-> 0 ]

\* a lookup that finds no key
GetDefault(m, k, dflt) == dflt

\* dict.get(k, dflt)
Get(m, k, dflt) == IF k \in DOMAIN m THEN m[k] ELSE dflt

\* the get of set_poll_rate took its default
Fallback(vendor, rate) == rate \notin DOMAIN rate_map(vendor).map

\* set_poll_rate of the six protocols
set_poll_rate(vendor, rate) ==
    LET m == rate_map(vendor)
        v == Get(m.map, rate, m.default)
    IN  CASE vendor = "Razer" -> create_report(0, 5, 1, << v >>)
          [] vendor = "Logitech" ->
                 [ByteArray(64) EXCEPT ![1] = 16, ![2] = 255, ![3] = v]
          [] vendor = "SteelSeries" ->
                 [ByteArray(64) EXCEPT ![1] = 33, ![2] = v]
          [] vendor = "Generic" ->
                 [ByteArray(64) EXCEPT ![1] = 2, ![2] = 1, ![3] = v]
          [] vendor = "CyberpowerPC" ->
                 [ByteArray(8) EXCEPT ![2] = 17, ![3] = v]
          [] vendor = "iBuyPower" ->
                 [ByteArray(65) EXCEPT ![2] = 8, ![3] = v]

\* ---------------------------------------------------- colours of set_rgb
\* a colour is the sequence of its characters
HexChars ==
    << "0", "1", "2", "3", "4", "5", "6", "7", "8", "9",
       "a", "b", "c", "d", "e", "f" >>

UpperHexChars == << "A", "B", "C", "D", "E", "F" >>

IsHexDigit(ch) ==
    \/ \E i \in DOMAIN HexChars : HexChars[i] = ch
    \/ \E i \in DOMAIN UpperHexChars : UpperHexChars[i] = ch

HexValue(ch) ==
    IF \E i \in DOMAIN HexChars : HexChars[i] = ch
    THEN (CHOOSE i \in DOMAIN HexChars : HexChars[i] = ch) - 1
    ELSE (CHOOSE i \in DOMAIN UpperHexChars : UpperHexChars[i] = ch) + 9

\* what int() strips from both ends
IsSpace(ch) == ch \in {" ", "\t", "\n"}

ValueError == [ ok |-> FALSE, v |-> 0 ]

Parsed(v) == [ ok |-> TRUE, v |-> v ]

\* int(s, 16) for the two characters s = a b: surrounding whitespace is
\* stripped, a sign is read, what is left must be hex digits
Int16(a, b) ==
    CASE IsHexDigit(a) /\ IsHexDigit(b) -> Parsed(16 * HexValue(a) + HexValue(b))
      [] a = "+" /\ IsHexDigit(b) -> Parsed(HexValue(b))
      [] a = "-" /\ IsHexDigit(b) -> Parsed(0 - HexValue(b))
      [] IsSpace(a) /\ IsHexDigit(b) -> Parsed(HexValue(b))
      [] IsHexDigit(a) /\ IsSpace(b) -> Parsed(HexValue(a))
      [] OTHER -> ValueError

\* color.lstrip('#')
RECURSIVE lstrip(_)
lstrip(color) ==
    IF color # << >> /\ Head(color) = "#" THEN lstrip(Tail(color)) ELSE color

\* ------------------------------------------------- MouseController setters
\* what a setter has when it calls send_command, or Raised when it returned
\* False before
NoBuffer == [ buf |-> Raised, fallback |-> FALSE ]

Built(buf, fallback) == [ buf |-> buf, fallback |-> fallback ]

\* x & 0xFF and (x >> 8) & 0xFF for an integer x >= 0
LowByte(x) == x % 256

HighByte(x) == (x \div 256) % 256

\* LogitechProtocol.set_dpi: bytearray(64) with report[0..6] assigned
LogitechProtocol_set_dpi(dpi) ==
    [ i \in 1 .. 64 |->
        CASE i = 1 -> 17
          [] i = 2 -> 255
          [] i = 3 -> 4
          [] i = 4 -> LowByte(dpi)
          [] i = 5 -> HighByte(dpi)
          [] i = 6 -> 0
          [] i = 7 -> HighByte(dpi)
          [] OTHER -> 0 ]

\* CyberpowerProtocol.set_dpi: bytearray(8) with report[0..3] assigned
CyberpowerProtocol_set_dpi(dpi) ==
    [ i \in 1 .. 8 |->
        CASE i = 2 -> 16
          [] i = 3 -> LowByte(dpi \div 50)
          [] OTHER -> 0 ]

\* self.protocol.set_dpi of the protocol class _get_protocol chose for the
\* vendor, for the vendors whose set_dpi is requested
ProtocolSetDpi(vendor, dpi) ==
    CASE vendor = "Razer" -> RazerProtocol_set_dpi(dpi)
      [] vendor = "Logitech" -> LogitechProtocol_set_dpi(dpi)
      [] vendor = "CyberpowerPC" -> CyberpowerProtocol_set_dpi(dpi)

\* MouseController.set_dpi of core/controller.py
Ctl_set_dpi(c, vendor, dpi) ==
    IF ~c.connected \/ ~(100 <= dpi /\ dpi <= 20000) THEN NoBuffer
    ELSE Built(ProtocolSetDpi(vendor, dpi), FALSE)

\* MouseController.set_polling_rate of core/controller.py
Ctl_set_polling_rate(c, vendor, rate) ==
    IF ~c.connected \/ rate \notin {125, 250, 500, 1000} THEN NoBuffer
    ELSE Built(set_poll_rate(vendor, rate), Fallback(vendor, rate))

\* MouseController._get_protocol of mouse_config_tool.py
ToolProtocol(vendor) ==
    IF vendor \in {"Razer", "CyberpowerPC", "iBuyPower"} THEN vendor
    ELSE "Generic"

\* MouseController.set_polling_rate of mouse_config_tool.py
Tool_set_polling_rate(c, vendor, rate) ==
    IF ~c.connected THEN NoBuffer
    ELSE Built(set_poll_rate(ToolProtocol(vendor), rate),
               Fallback(ToolProtocol(vendor), rate))

\* MouseController.set_rgb of core/controller.py for vendor Razer: the
\* length check, the three int(.., 16), the brightness check, the mode
Ctl_set_rgb(c, colour, mode, brightness) ==
    LET color == lstrip(colour)
    IN  IF ~c.connected \/ Len(color) # 6 THEN NoBuffer
        ELSE LET r == Int16(color[1], color[2])
                 g == Int16(color[3], color[4])
                 b == Int16(color[5], color[6])
             IN  IF ~r.ok \/ ~g.ok \/ ~b.ok THEN NoBuffer
                 ELSE IF ~(0 <= brightness /\ brightness <= 100) THEN NoBuffer
                 ELSE IF mode = "Spectrum"
                      THEN Built(RazerProtocol_set_led_spectrum, FALSE)
                      ELSE Built(RazerProtocol_set_led_static(r.v, g.v, b.v),
                                 FALSE)

\* hasattr(self.protocol, 'set_lift_off_distance')
HasLiftOffDistance(vendor) == vendor = "Razer"

\* MouseController.set_lod of core/controller.py, for the protocols without
\* set_lod
Ctl_set_lod(c, vendor, distance) ==
    IF ~c.connected \/ ~(1 <= distance /\ distance <= 3) THEN NoBuffer
    ELSE IF HasLiftOffDistance(vendor)
         THEN Built(RazerProtocol_set_lift_off_distance(distance), FALSE)
         ELSE NoBuffer

\* hasattr(self.protocol, 'set_debounce_time')
HasDebounceTime(vendor) == vendor = "Generic"

\* MouseController.set_debounce of core/controller.py
Ctl_set_debounce(c, vendor, ms) ==
    IF ~c.connected \/ ~HasDebounceTime(vendor) THEN NoBuffer
    ELSE IF ~(2 <= ms /\ ms <= 16) THEN NoBuffer
    ELSE Built(GenericProtocol_set_debounce_time(ms), FALSE)

SetterOps ==
    {"set_dpi", "set_polling_rate", "set_rgb", "set_lod", "set_debounce"}

\* the setter of request r on controller c
SetterBuilds(r, c) ==
    CASE r.op = "set_dpi" -> Ctl_set_dpi(c, r.vendor, r.n)
      [] r.op = "set_polling_rate" ->
             IF r.impl = "tool" THEN Tool_set_polling_rate(c, r.vendor, r.n)
             ELSE Ctl_set_polling_rate(c, r.vendor, r.n)
      [] r.op = "set_rgb" -> Ctl_set_rgb(c, r.color, r.mode, r.n)
      [] r.op = "set_lod" -> Ctl_set_lod(c, r.vendor, r.n)
      [] r.op = "set_debounce" -> Ctl_set_debounce(c, r.vendor, r.n)

\* send_command of mouse_config_tool.py: "for attempt in range(retries)",
\* the five mechanisms, and on the last attempt the feature reports with
\* another report id
ReportIds == 6

ToolNextMechanism(c, k, last) ==
    IF NextMechanism(c, k) # 0 THEN NextMechanism(c, k)
    ELSE IF k <= ReportIds /\ c.device /\ last THEN ReportIds ELSE 0

\* a setter is called: it returns False, or it has built its buffer and
\* send_command invokes its first mechanism
Setter(t) ==
    /\ t = Admin /\ pc[t] = "idle" /\ req.op \in SetterOps
    /\ LET e == SetterBuilds(req, ctl)
           k == IF e.buf = Raised THEN 0
                ELSE IF req.impl = "tool"
                     THEN ToolNextMechanism(ctl, 1, FALSE)
                     ELSE CtlNextMechanism(ctl, 1)
       IN  /\ req' = [req EXCEPT !.buf = e.buf, !.fallback = e.fallback]
           /\ attempt' = [attempt EXCEPT ![t] = 0]
           /\ inflight' = [inflight EXCEPT ![t] = k]
           /\ IF k = 0
              THEN Return(t, Ret(req.op, FALSE))
              ELSE /\ pc' = [pc EXCEPT ![t] = IF req.impl = "tool"
                                             THEN "ts_xfer" ELSE "cs_xfer"]
                   /\ UNCHANGED ret
    /\ UNCHANGED << state, controller, current_method, metrics, counters,
                    lock, timers, ctl, conn_i, tearing, hist, able, usb,
                    scan >>

\* a transfer of the send_command of mouse_config_tool.py ends: accepted, or
\* the next mechanism, or the next attempt, or "return False"
ToolTransferEnd(t) ==
    /\ t = Admin /\ pc[t] = "ts_xfer" /\ inflight[t] # 0
    /\ \E accepted \in BOOLEAN :
          LET last == attempt[t] = DefaultRetries - 1
              k == IF accepted THEN 0
                   ELSE ToolNextMechanism(ctl, inflight[t] + 1, last)
              again == ~accepted /\ k = 0 /\ ~last
          IN  /\ inflight' = [inflight EXCEPT ![t] =
                    IF again THEN ToolNextMechanism(ctl, 1, FALSE) ELSE k]
              /\ attempt' = [attempt EXCEPT ![t] =
                    IF again THEN attempt[t] + 1 ELSE attempt[t]]
              /\ IF k # 0 \/ again
                 THEN UNCHANGED << pc, ret >>
                 ELSE Return(t, Ret(req.op, accepted))
    /\ UNCHANGED << state, controller, current_method, metrics, counters,
                    lock, timers, ctl, conn_i, tearing, hist, below >>

\* the application calls RazerProtocol.create_report with a payload
Build(t) ==
    /\ t = Admin /\ pc[t] = "idle" /\ req.op = "create_report"
    /\ req' = [req EXCEPT !.buf = create_report(req.head[1], req.head[2],
                                                req.head[3], req.data)]
    /\ Return(t, Ret(req.op, req'.buf # Raised))
    /\ UNCHANGED << state, controller, current_method, metrics, counters,
                    lock, timers, ctl, conn_i, sending, tearing, hist,
                    able, usb, scan >>

\* ------------------------------------------------------ device detection
\* MouseDetector of core/detection.py. A string of an enumerated device is
\* the tuple of its characters.

\* MouseDetector.VENDOR_IDS
VENDOR_IDS ==
    (5426 :> "Razer") @@ (9934 :> "iBuyPower") @@
    (6940 :> "CyberpowerPC") @@ (4164 :> "CyberpowerPC") @@
    (1133 :> "Logitech") @@ (1118 :> "Microsoft") @@ (2522 :> "A4Tech") @@
    (7805 :> "ZOWIE") @@ (7511 :> "ZOWIE") @@ (2821 :> "ASUS") @@
    (3034 :> "Realtek") @@ (6438 :> "ROCCAT") @@ (7119 :> "Xiaomi") @@
    (11944 :> "Glorious") @@ (9494 :> "SteelSeries") @@
    (5432 :> "Razer") @@ (3885 :> "EVGA") @@ (3695 :> "Logic3") @@
    (8352 :> "NZXT") @@ (7793 :> "HyperX") @@ (3504 :> "Astro") @@
    (1035 :> "NEC") @@ (1390 :> "Elecom") @@ (1241 :> "Hama") @@
    (2362 :> "AIPTEK") @@ (3141 :> "Sonix") @@ (2458 :> "Genius") @@
    (6127 :> "Lenovo") @@ (1266 :> "Chicony") @@ (1452 :> "Apple") @@
    (2652 :> "Broadcom") @@ (32903 :> "Intel")

\* the rows of RAZER_PRODUCTS, LOGITECH_PRODUCTS and STEELSERIES_PRODUCTS
\* of the product ids that are enumerated
RAZER_PRODUCTS == (120 :> << "V", "i", "p", "e", "r" >>)

LOGITECH_PRODUCTS == (49271 :> << "G", "5", "0", "2", " ", "H", "E", "R", "O" >>)

STEELSERIES_PRODUCTS == (6144 :> << "R", "i", "v", "a", "l", " ", "6", "5", "0" >>)

UpperToLower ==
    ("A" :> "a") @@ ("B" :> "b") @@ ("C" :> "c") @@ ("D" :> "d") @@
    ("E" :> "e") @@ ("F" :> "f") @@ ("G" :> "g") @@ ("H" :> "h") @@
    ("I" :> "i") @@ ("J" :> "j") @@ ("K" :> "k") @@ ("L" :> "l") @@
    ("M" :> "m") @@ ("N" :> "n") @@ ("O" :> "o") @@ ("P" :> "p") @@
    ("Q" :> "q") @@ ("R" :> "r") @@ ("S" :> "s") @@ ("T" :> "t") @@
    ("U" :> "u") @@ ("V" :> "v") @@ ("W" :> "w") @@ ("X" :> "x") @@
    ("Y" :> "y") @@ ("Z" :> "z")

\* str.lower() on the characters of the product strings
Lower(s) ==
    [ i \in DOMAIN s |->
        IF s[i] \in DOMAIN UpperToLower THEN UpperToLower[s[i]] ELSE s[i] ]

\* "keyword in product_str"
Contains(s, keyword) ==
    \E i \in 1 .. Len(s) - Len(keyword) + 1 :
       SubSeq(s, i, i + Len(keyword) - 1) = keyword

mouse_keywords ==
    { << "m", "o", "u", "s", "e" >>,
      << "v", "i", "p", "e", "r" >>,
      << "d", "e", "a", "t", "h", "a", "d", "d", "e", "r" >>,
      << "b", "a", "s", "i", "l", "i", "s", "k" >>,
      << "m", "a", "m", "b", "a" >>,
      << "n", "a", "g", "a" >>,
      << "r", "i", "v", "a", "l" >>,
      << "g", "5", "0", "2" >>,
      << "g", "7", "0", "3" >>,
      << "g", "9", "0", "3" >>,
      << "g", " ", "p", "r", "o" >>,
      << "s", "e", "n", "s", "e", "i" >>,
      << "p", "r", "i", "m", "e" >> }

exclude_keywords ==
    { << "k", "e", "y", "b", "o", "a", "r", "d" >>,
      << "d", "o", "n", "g", "l", "e" >>,
      << "r", "e", "c", "e", "i", "v", "e", "r" >>,
      << "d", "o", "c", "k" >>,
      << "h", "e", "a", "d", "s", "e", "t" >> }

\* MouseDetector.is_mouse_interface
is_mouse_interface(device) ==
    IF device.usage_page = 1 /\ device.usage \in {2, 6} THEN TRUE
    ELSE IF device.interface_number > 2 THEN FALSE
    ELSE LET product_str == Lower(device.product_string)
         IN  IF \E keyword \in mouse_keywords : Contains(product_str, keyword)
             THEN TRUE
             ELSE IF \E keyword \in exclude_keywords :
                        Contains(product_str, keyword)
             THEN FALSE
             ELSE device.interface_number \in {0, 1, 2} /\ product_str = << >>

\* a device_key that tells two enumerated entries apart by their path
KeyByPath(device) ==
    << device.vendor_id, device.product_id, device.path >>

\* device_key = (vendor_id, product_id, device.get('interface_number', -1))
DeviceKey(device) ==
    << device.vendor_id, device.product_id, device.interface_number >>

\* one digit of the format 04X
UpperHexDigit(n) == IF n < 10 THEN HexChars[n + 1] ELSE UpperHexChars[n - 9]

\* f"Gaming Mouse (PID: 0x{product_id:04X})"
GamingMouseName(product_id) ==
    << "G", "a", "m", "i", "n", "g", " ", "M", "o", "u", "s", "e", " ", "(",
       "P", "I", "D", ":", " ", "0", "x" >>
    \o << UpperHexDigit((product_id \div 4096) % 16),
          UpperHexDigit((product_id \div 256) % 16),
          UpperHexDigit((product_id \div 16) % 16),
          UpperHexDigit(product_id % 16) >>
    \o << ")" >>

\* the product name from the vendor's table, else the product string
ProductName(device) ==
    LET vendor_id == device.vendor_id
        product_id == device.product_id
    IN  IF vendor_id = 5426 /\ product_id \in DOMAIN RAZER_PRODUCTS
        THEN RAZER_PRODUCTS[product_id]
        ELSE IF vendor_id = 1133 /\ product_id \in DOMAIN LOGITECH_PRODUCTS
        THEN LOGITECH_PRODUCTS[product_id]
        ELSE IF vendor_id = 9494
                  /\ product_id \in DOMAIN STEELSERIES_PRODUCTS
        THEN STEELSERIES_PRODUCTS[product_id]
        ELSE device.product_string

\* mouse_info, without the serial number, manufacturer and release that are
\* copied from the device
MouseInfo(device, product_name) ==
    [ vendor_id |-> device.vendor_id,
      product_id |-> device.product_id,
      vendor |-> VENDOR_IDS[device.vendor_id],
      product |-> product_name,
      path |-> device.path,
      interface |-> device.interface_number,
      usage_page |-> device.usage_page,
      usage |-> device.usage ]

\* "for device in devices" of scan_devices from entry i on, seen_devices
\* and detected_mice as the entries before i left them
RECURSIVE ScanLoop(_, _, _, _)
ScanLoop(devices, i, seen_devices, detected_mice) ==
    IF i > Len(devices) THEN detected_mice
    ELSE LET device == devices[i]
             device_key == DeviceKey(device)
             product_name == ProductName(device)
         IN  IF device.vendor_id \notin DOMAIN VENDOR_IDS
             THEN ScanLoop(devices, i + 1, seen_devices, detected_mice)
             ELSE IF ~is_mouse_interface(device)
             THEN ScanLoop(devices, i + 1, seen_devices, detected_mice)
             ELSE IF device_key \in seen_devices
             THEN ScanLoop(devices, i + 1, seen_devices, detected_mice)
             ELSE IF product_name = << >> /\ device.vendor_id = 5426
                       /\ device.product_id \notin DOMAIN RAZER_PRODUCTS
             THEN ScanLoop(devices, i + 1, seen_devices \cup {device_key},
                           detected_mice)
             ELSE ScanLoop(devices, i + 1, seen_devices \cup {device_key},
                           Append(detected_mice,
                                  MouseInfo(device,
                                            IF product_name = << >>
                                            THEN GamingMouseName(
                                                     device.product_id)
                                            ELSE product_name)))

\* MouseDetector.scan_devices: without the hid library "return []"; else
\* the loop over the entries the enumeration yields, and when the query
\* raises, in hid.enumerate() or after the entries of bus, the handler of
\* "except Exception" prints and detected_mice is returned as it is
scan_devices(lib, bus) ==
    IF ~lib THEN << >> ELSE ScanLoop(bus, 1, {}, << >>)

\* the entries hid.enumerate() can yield
HidEntries ==
    { \* a Razer Viper on interface 0, by its usage
      [ vendor_id |-> 5426, product_id |-> 120, interface_number |-> 0,
        usage_page |-> 1, usage |-> 2, path |-> "p1",
        product_string |->
            << "R", "a", "z", "e", "r", " ", "V", "i", "p", "e", "r" >> ],
      \* the same interface enumerated again under another path
      [ vendor_id |-> 5426, product_id |-> 120, interface_number |-> 0,
        usage_page |-> 1, usage |-> 2, path |-> "p2",
        product_string |->
            << "R", "a", "z", "e", "r", " ", "V", "i", "p", "e", "r" >> ],
      \* a SteelSeries Rival 650 without a product string
      [ vendor_id |-> 9494, product_id |-> 6144, interface_number |-> 1,
        usage_page |-> 1, usage |-> 6, path |-> "p3",
        product_string |->
            << >> ],
      \* a Razer product that is in no table and has no product string
      [ vendor_id |-> 5426, product_id |-> 4095, interface_number |-> 0,
        usage_page |-> 0, usage |-> 0, path |-> "p4",
        product_string |->
            << >> ],
      \* the same product and interface with a product string
      [ vendor_id |-> 5426, product_id |-> 4095, interface_number |-> 0,
        usage_page |-> 0, usage |-> 0, path |-> "p5",
        product_string |->
            << "R", "a", "z", "e", "r", " ", "M", "o", "u", "s", "e" >> ],
      \* a Logitech product that is in no table and has no product string
      [ vendor_id |-> 1133, product_id |-> 49406, interface_number |-> 2,
        usage_page |-> 0, usage |-> 0, path |-> "p6",
        product_string |->
            << >> ],
      \* a Logitech mouse on interface 3
      [ vendor_id |-> 1133, product_id |-> 49271, interface_number |-> 3,
        usage_page |-> 0, usage |-> 0, path |-> "p7",
        product_string |->
            << "G", "5", "0", "2", " ", "H", "E", "R", "O" >> ],
      \* a Logitech receiver
      [ vendor_id |-> 1133, product_id |-> 50475, interface_number |-> 1,
        usage_page |-> 12, usage |-> 1, path |-> "p8",
        product_string |->
            << "U", "S", "B", " ", "R", "e", "c", "e", "i", "v", "e", "r" >> ],
      \* a mouse of a vendor that is not in VENDOR_IDS
      [ vendor_id |-> 4660, product_id |-> 1, interface_number |-> 0,
        usage_page |-> 1, usage |-> 2, path |-> "p9",
        product_string |->
            << "U", "S", "B", " ", "M", "o", "u", "s", "e" >> ] }

\* the longest enumeration
MaxEntries == 3

RECURSIVE SeqsOf(_, _)
SeqsOf(S, n) ==
    IF n = 0 THEN { << >> }
    ELSE LET shorter == SeqsOf(S, n - 1)
         IN  shorter \cup { Append(s, e) : s \in { x \in shorter :
                                                      Len(x) = n - 1 },
                                             e \in S }

\* the hid library is missing; or the enumeration yields the entries of bus
\* and then ends or raises
Scans ==
    { NotScanned(FALSE, << >>, FALSE) }
    \cup { NotScanned(TRUE, b, f) :
              b \in SeqsOf(HidEntries, MaxEntries), f \in BOOLEAN }

\* the application calls MouseDetector.scan_devices()
ScanDevices(t) ==
    /\ t = Admin /\ pc[t] = "idle"
    /\ LET found == scan_devices(scan.lib, scan.bus)
       IN  scan' = [scan EXCEPT !.scanned = TRUE,
                                !.detected_mice = found,
                                !.result = found]
    /\ Return(t, Ret("scan_devices", TRUE))
    /\ UNCHANGED << state, controller, current_method, metrics, counters,
                    lock, timers, ctl, conn_i, sending, tearing, hist,
                    able, usb, req >>

\* ---------------------------------------------------------- specifications
\* Two caller threads and no timer callback: the application thread makes
\* every call of the manager's and the controller's interface, a second
\* thread sends commands meanwhile.
Next ==
    \/ \E c \in BOOLEAN : SetController(Admin, c)
    \/ SetControllerNotify(Admin)
    \/ CtlConnect(Admin)
    \/ ConnectBegin(Admin)
    \/ ConnectTry(Admin)
    \/ DisconnectBegin(Admin)
    \/ TeardownBegin(Admin)
    \/ TeardownEnd(Admin)
    \/ ForceReconnect(Admin)
    \/ \E t \in Callers : SendCheck(t)
    \/ \E t \in Callers : SendRetry(t)
    \/ \E t \in Callers : SendExcept(t)
    \/ \E t \in Callers : InitiateReconnect(t)
    \/ \E t \in Callers : CtlSendCheck(t)
    \/ \E t \in Callers : TransferEnd(t)
    \/ \E t \in Callers : Resume(t)

Spec == Init /\ [][Next]_vars

\* One caller thread and the two timer threads, on a device that only
\* usb_direct can open.
NextTimers ==
    \/ \E c \in BOOLEAN : SetController(Admin, c)
    \/ SetControllerNotify(Admin)
    \/ CtlConnect(Admin)
    \/ \E t \in {Admin, RT} : ConnectBegin(t)
    \/ \E t \in {Admin, RT} : ConnectTry(t)
    \/ DisconnectWait(Admin)
    \/ DisconnectBegin(Admin)
    \/ \E t \in {Admin, RT} : TeardownBegin(t)
    \/ \E t \in {Admin, RT} : TeardownEnd(t)
    \/ ForceReconnect(Admin)
    \/ SendCheck(Admin)
    \/ SendRetry(Admin)
    \/ SendExcept(Admin)
    \/ \E t \in {Admin, HT} : InitiateReconnect(t)
    \/ CtlSendCheck(Admin)
    \/ TransferEnd(Admin)
    \/ Resume(Admin)
    \/ ReconnectFire(RT)
    \/ ReconnectAfter(RT)
    \/ HealthFire(HT)
    \/ HealthProbe(HT)

InitTimers == Init /\ able = 4

SpecTimers == InitTimers /\ [][NextTimers]_vars

\* One thread that connects and disconnects a MouseController whose device
\* opens through usb_detach_driver or through usb_raw only.
NextTeardown ==
    \/ CtlConnectUsb(Admin)
    \/ CtlDisconnect(Admin)
    \/ Resume(Admin)

InitTeardown == Init /\ able \in {5, 6}

SpecTeardown == InitTeardown /\ [][NextTeardown]_vars

\* One thread that connects a MouseController and calls one setter, or one
\* builder of RazerProtocol, with the arguments it was started with.
Dpis ==
    {0, 99, 100, 101, 199, 200, 800, 850, 899, 1600, 12345, 12799, 12800,
     19999, 20000, 20001, 25500, 25600}

Rates == {0, 124, 125, 250, 300, 500, 1000, 2000}

Distances == 0 .. 4

DebounceTimes == {1, 2, 16, 17}

Brightnesses == {-1, 0, 100, 101}

Colours ==
    { << "f", "f", "0", "0", "0", "0" >>,
      << "F", "F", "F", "F", "F", "F" >>,
      << "#", "0", "0", "8", "0", "f", "f" >>,
      << "#", "#", "f", "f", "0", "0", "0", "0" >>,
      << "f", "f", "0", "0" >>,
      << "f", "f", "0", "0", "0", "0", "0" >>,
      << "g", "g", "0", "0", "0", "0" >>,
      << "1", "_", "2", "_", "3", "_" >>,
      << "+", "1", "+", "2", "+", "3" >>,
      << " ", "1", " ", "2", " ", "3" >>,
      << "-", "1", "-", "1", "-", "1" >> }

Modes == {"Static", "Spectrum"}

Heads == { << 0, 0, 0 >>, << 4, 5, 7 >>, << 255, 255, 255 >> }

Payloads ==
    { << >>, << 0 >>, << 255 >>, << 170, 85 >>, << 1, 2, 4, 8, 16, 32, 64 >>,
      << 0, 0, 0, 0, 0, 0, 0, 0 >>,
      << 255, 255, 255, 255, 255, 255, 255, 255 >>,
      << 255, 0, 255, 0, 255, 0, 255, 0 >>,
      [ i \in 1 .. REPORT_SIZE - 10 |-> 255 ] }

Requests ==
    { [NoRequest EXCEPT !.op = "set_dpi", !.vendor = v, !.n = d]
        : v \in {"Razer", "Logitech", "CyberpowerPC"}, d \in Dpis }
    \cup { [NoRequest EXCEPT !.op = "set_polling_rate", !.vendor = v, !.n = r,
                             !.impl = i]
             : v \in Vendors, r \in Rates, i \in {"core", "tool"} }
    \cup { [NoRequest EXCEPT !.op = "set_rgb", !.vendor = "Razer", !.n = b,
                             !.color = c, !.mode = m]
             : b \in Brightnesses, c \in Colours, m \in Modes }
    \cup { [NoRequest EXCEPT !.op = "set_lod", !.vendor = v, !.n = d]
             : v \in {"Razer", "Generic"}, d \in Distances }
    \cup { [NoRequest EXCEPT !.op = "set_debounce", !.vendor = v, !.n = ms]
             : v \in {"Razer", "Generic"}, ms \in DebounceTimes }
    \cup { [NoRequest EXCEPT !.op = "create_report", !.vendor = "Razer",
                             !.head = h, !.data = d]
             : h \in Heads, d \in Payloads }

NextSetters ==
    \/ CtlConnect(Admin)
    \/ Setter(Admin)
    \/ Build(Admin)
    \/ TransferEnd(Admin)
    \/ ToolTransferEnd(Admin)
    \/ Resume(Admin)

InitSetters == Constructed /\ req \in Requests /\ scan = NoScan

SpecSetters == InitSetters /\ [][NextSetters]_vars

\* One thread that scans the bus: the enumerations of up to MaxEntries
\* entries, each ending or raising, and the missing library.
NextDetect ==
    \/ ScanDevices(Admin)
    \/ Resume(Admin)

InitDetect == Constructed /\ able = 1 /\ req = NoRequest /\ scan \in Scans

SpecDetect == InitDetect /\ [][NextDetect]_vars

TypeOK ==
    /\ state \in States
    /\ controller \in BOOLEAN
    /\ lock \in Threads \cup {"none"}
    /\ reconnect_timer \in {"none", "cur", "stale", "second"}
    /\ second_timer \in BOOLEAN
    /\ health_check_timer \in {"none", "cur", "stale"}
    /\ tearing \subseteq Threads
    /\ metrics.error_count \in 0 .. MaxErrorCount
    /\ metrics.reconnect_count \in 0 .. MaxReconnectCount
    /\ failed_attempts \in 0 .. MaxFailedAttempts

\* ------------------------------------------------------------------- claims
\* the step in which thread t calls RobustConnectionManager.send_command
SendCalled(t) ==
    /\ pc[t] = "idle"
    /\ \/ pc'[t] \in {"s_retry", "s_except", "s_xfer", "s_initiate"}
       \/ pc'[t] = "returned" /\ ret'[t].op = "send_command"

\* the step in which thread t calls MouseController.send_command
CtlSendCalled(t) ==
    /\ pc[t] = "idle"
    /\ \/ pc'[t] = "cs_xfer"
       \/ pc'[t] = "returned" /\ ret'[t].op = "ctl_send_command"

\* C1: RobustConnectionManager.send_command called in a state other than
\* Connected returns False in that very step, starts no transfer and leaves
\* the state, the metrics, the command counters and the controller as they
\* were; MouseController.send_command called on a controller that is not
\* connected returns False and starts no transfer.
C1_SendRejectedUnlessConnected ==
    [][\A t \in Callers :
          /\ (SendCalled(t) /\ state # "connected") =>
                /\ pc'[t] = "returned"
                /\ ret'[t] = Ret("send_command", FALSE)
                /\ inflight' = inflight
                /\ UNCHANGED << state, metrics, counters, ctl >>
          /\ (CtlSendCalled(t) /\ ~ctl.connected) =>
                /\ pc'[t] = "returned"
                /\ ret'[t] = Ret("ctl_send_command", FALSE)
                /\ inflight' = inflight
                /\ UNCHANGED ctl
      ]_vars

\* a send_command rejected while another thread is inside connect(), no
\* command having failed before
C1_Witness ==
    /\ pc[Sender] = "returned"
    /\ ret[Sender] = Ret("send_command", FALSE)
    /\ state = "connecting"
    /\ metrics.error_count = 0

\* seq is the strategies 1 .. Len(seq) in their declared order
InOrder(seq) == \A i \in 1 .. Len(seq) : seq[i] = i

\* C8: connect() tries the strategies strictly in the declared order; when
\* the N-th strategy is the one that succeeds, exactly 1 .. N were attempted
\* and connect() recorded exactly N-1 failures (error_count += 1 each); the
\* same order holds for MouseController.connect.
C8_StrategiesInOrder ==
    /\ InOrder(tried)
    /\ InOrder(ctl_tried)
    /\ (pc[Admin] = "returned" /\ ret[Admin] = Ret("connect", TRUE)
          /\ tried # << >>) =>
            /\ Len(tried) = able
            /\ conn_errors = able - 1
    /\ (pc[Admin] = "returned" /\ ret[Admin] = Ret("ctl_connect", TRUE)) =>
            /\ Len(ctl_tried) = able
            /\ ctl.connection_method = able

\* connect() has just succeeded with usb_raw, the sixth strategy, after five
\* recorded failures
C8_Witness ==
    /\ pc[Admin] = "returned"
    /\ ret[Admin] = Ret("connect", TRUE)
    /\ tried = << 1, 2, 3, 4, 5, 6 >>
    /\ conn_errors = 5
    /\ metrics.connection_method = 6

\* the step in which thread t's connect() returns after trying strategies
ConnectReturns(t) == pc[t] = "c_try" /\ pc'[t] # "c_try"

\* C9: with a controller set, a connect() that tried strategies returns
\* False only after all six were attempted and each failed, and the state
\* is then Error; otherwise it returns True with the state Connected and
\* with current_method and metrics.connection_method naming the strategy
\* that succeeded, the last one attempted.
C9_FailureOnlyWhenExhausted ==
    [][\A t \in {Admin, RT} :
          (ConnectReturns(t) /\ controller) =>
             /\ ret'[t].op = "connect"
             /\ IF ret'[t].val
                THEN /\ state' = "connected"
                     /\ Len(tried') \in 1 .. NumMethods
                     /\ conn_errors' = Len(tried') - 1
                     /\ current_method' = tried'[Len(tried')]
                     /\ metrics'.connection_method = tried'[Len(tried')]
                ELSE /\ state' = "error"
                     /\ tried' = << 1, 2, 3, 4, 5, 6 >>
                     /\ conn_errors' = NumMethods
      ]_vars

\* connect() has returned False with a controller set: six strategies
\* tried, six failures recorded, state Error
C9_Witness ==
    /\ pc[Admin] = "returned"
    /\ ret[Admin] = Ret("connect", FALSE)
    /\ controller
    /\ Len(tried) = NumMethods
    /\ conn_errors = NumMethods
    /\ state = "error"

\* a step taken by one of the two Timer threads, not by a caller
TimerStep ==
    /\ \A t \in Callers : pc'[t] = pc[t]
    /\ pc'[RT] # pc[RT] \/ pc'[HT] # pc[HT]

\* C2: once the state is Error it stays Error until a caller thread calls
\* connect() or disconnect(): no step of a Timer thread (a reconnection
\* attempt, a health check) takes the manager out of Error.
C2_ErrorUntilCallerActs ==
    [][(state = "error" /\ state' # "error") => ~TimerStep]_vars

\* C3: when reconnection attempts keep failing, no reconnect timer is
\* scheduled any more once max_reconnect_attempts attempts in a row have
\* failed.
C3_ReconnectionStopsAfterMaxAttempts ==
    failed_attempts >= max_reconnect_attempts => pc[RT] # "pending"

\* C4: the reconnect timer scheduled after k consecutive failed attempts
\* (k = 0 for the first attempt) has the delay
\* reconnect_delay * 2^min(k, 3): 2, 4, 8, 16, 16.
C4_BackoffDelays ==
    pc[RT] = "pending" =>
        timer_delay = reconnect_delay * Pow2(Min(failed_attempts, 3))

\* the step in which thread t runs _initiate_reconnect after a failed
\* health check or after the error threshold was reached by a failing
\* command
FailureHandled(t) ==
    pc[t] \in {"s_initiate", "h_initiate"} /\ pc'[t] # pc[t]

\* C5: whenever a failed health check or the error threshold is handled
\* while the manager is Connected and no reconnection is under way, the
\* state becomes Reconnecting and a reconnection attempt is scheduled.
C5_FailureStartsReconnection ==
    [][\A t \in {Admin, HT} :
          (FailureHandled(t) /\ state = "connected" /\ pc[RT] = "off") =>
             (state' = "reconnecting" /\ pc'[RT] = "pending")
      ]_vars

\* C6: while the manager is Connected a health check is scheduled or
\* running: one is scheduled once connect() or set_controller() has made
\* the state Connected and again after every probe that succeeded.
C6_HealthChecksKeepRunning ==
    (state = "connected" /\ lock = "none") => pc[HT] # "off"

\* C7: once disconnect() has set the state to Disconnected, no step of a
\* Timer thread changes the state: it stays Disconnected until a caller
\* acts.
C7_DisconnectWins ==
    [][(state = "disconnected" /\ state' # "disconnected") => ~TimerStep]_vars

\* C10: no transfer issued by a send_command is in progress on the
\* controller's handles while a thread is inside controller.disconnect().
C10_NoTransferDuringTeardown ==
    \A t \in Callers : inflight[t] # 0 => tearing = {}

\* C11: the transfers of two threads that call send_command at the same
\* time never overlap: at most one transfer is in progress on the handle.
C11_SendsSerialized ==
    \A t, u \in Callers : (inflight[t] # 0 /\ inflight[u] # 0) => t = u

\* C12: while connection_lock is held, the state is written only by the
\* thread that holds it: no Timer callback and no failure path of
\* send_command writes the state past the lock.
C12_StateWrittenUnderLock ==
    [][(state' # state /\ lock # "none") => pc'[lock] # pc[lock]]_vars

\* C13: a connect() that ends in Error leaves no open handle on the
\* manager's controller: with the state Error, the controller holds
\* neither a HID device nor a USB device.
C13_NoHandleInError ==
    (state = "error" /\ controller /\ lock = "none") =>
        (~ctl.device /\ ~ctl.usb_device)

\* MouseController.disconnect() has just returned to the application thread
Disconnected == ret[Admin].op = "ctl_disconnect"

\* C14: MouseController.disconnect() attempts every teardown step even when
\* an earlier one fails: whenever it called release_interface on a
\* controller whose kernel_driver_detached flag is set, it also called
\* attach_kernel_driver and dispose_resources, whether or not the release
\* raised; and afterwards connected is False.
C14_TeardownComplete ==
    Disconnected =>
        /\ ~ctl.connected
        /\ (usb.released # << >> /\ usb.kernel_driver_detached) =>
               (usb.attached # << >> /\ usb.disposed)

\* the step in which the application thread calls and completes
\* MouseController.disconnect()
DisconnectStep == pc[Admin] = "idle" /\ ret'[Admin].op = "ctl_disconnect"

C16_SymmetricTeardown ==
    Disconnected =>
        /\ \A i \in 1 .. Len(usb.attached) :
               usb.attached[i] \in usb.detached_before
        /\ usb.raising = {} => (usb.claimed = {} /\ usb.detached = {})

\* mechanism j can be invoked by the call thread t is in: its handle is
\* there, and the call that wraps it reaches it
Invocable(t, j) ==
    /\ MechAvailable(ctl, j)
    /\ IF pc'[t] = "cs_xfer" THEN j <= 3 => SafeExecuteAccepts
                             ELSE controller

SendFails(t) ==
    /\ pc'[t] = "returned" /\ pc[t] # "returned"
    /\ ret'[t] \in { Ret("send_command", FALSE),
                     Ret("ctl_send_command", FALSE) }

\* C18: send_command returns False only if the connection was not
\* Connected when it was called, or no transfer mechanism has its handle,
\* or the device rejected the last transfer the call made; otherwise a
\* mechanism that accepts the buffer makes it return True.
C18_SendFailsOnlyWhenRejected ==
    [][\A t \in Callers :
          SendFails(t) =>
             \/ pc[t] = "idle" /\ ret'[t].op = "send_command"
                   /\ state # "connected"
             \/ pc[t] = "idle" /\ ret'[t].op = "ctl_send_command"
                   /\ ~ctl.connected
             \/ pc[t] \in {"s_xfer", "cs_xfer"}
             \/ \A j \in Mechanisms : ~MechAvailable(ctl, j)
      ]_vars

\* the send_command of thread t returns at its first check: not connected
EarlyReturn(t) ==
    /\ pc[t] = "idle"
    /\ \/ ret'[t].op = "send_command" /\ state # "connected"
       \/ ret'[t].op = "ctl_send_command" /\ ~ctl.connected

\* C19: a send_command that was let through and returns False has made
\* DefaultRetries attempts (retry_operation's loop is in its last round),
\* and its attempts reached the transfer mechanisms instead of ending in
\* the exception handler.
C19_FailsAfterAllRetries ==
    [][\A t \in Callers :
          (SendFails(t) /\ ~EarlyReturn(t)) =>
             /\ attempt[t] = DefaultRetries - 1
             /\ pc[t] \notin {"s_except", "s_initiate"}
      ]_vars

\* the step in which set_controller, having changed the state to
\* Connected, calls the state-change callbacks
NotifiesAfterChange(t) == pc[t] = "sc_notify" /\ pc'[t] # "sc_notify"

\* C20: a change of the state is notified with the new state: the callbacks
\* that set_controller calls after it has changed the state to Connected
\* are called with Connected.
C20_NotifiedWithNewState ==
    [][NotifiesAfterChange(Admin) => NotifyStateChange = "connected"]_vars

\* the step calls the error callbacks: connect() records a raising
\* strategy ("_notify_error(Connection failed ...)"), or it has run out of
\* strategies ("_notify_error(All connection methods failed)")
NotifyError ==
    \/ conn_errors' = conn_errors + 1
    \/ state = "connecting" /\ state' = "error"

\* the step in which the reconnection gives up: _schedule_reconnect_retry
\* finds the cap reached and sets the state to Error
CapReached ==
    /\ pc[RT] = "r_after" /\ ~ret[RT].val
    /\ metrics.reconnect_count >= max_reconnect_attempts
    /\ state' = "error"

\* C21: while a reconnection attempt runs, the error callbacks are called
\* in one step only, the one in which the attempt cap is reached and the
\* state becomes Error; a failing strategy or a failing attempt calls none.
C21_ErrorReportedOnceAtCap ==
    [][/\ (lock = RT /\ NotifyError) => CapReached
       /\ CapReached => NotifyError]_vars

\* the step in which a send_command of thread t that was dispatched ends
\* in failure
CommandFails(t) ==
    /\ pc[t] \in {"s_except", "s_xfer"}
    /\ \/ pc'[t] = "s_initiate"
       \/ pc'[t] = "returned" /\ ret'[t] = Ret("send_command", FALSE)

\* C22: error_count counts the consecutive failed commands: a failed
\* send_command raises it by one, a strategy that fails inside connect()
\* leaves it alone, and a send_command goes on to _initiate_reconnect only
\* with the count at max_consecutive_errors.
C22_ThresholdCountsCommands ==
    [][/\ \A t \in Callers :
             /\ CommandFails(t) =>
                   metrics'.error_count =
                       Bump(metrics.error_count, MaxErrorCount)
             /\ (pc'[t] = "s_initiate" /\ pc[t] # "s_initiate") =>
                   metrics'.error_count >= max_consecutive_errors
       /\ conn_errors' = conn_errors + 1 =>
             metrics'.error_count = metrics.error_count]_vars

\* the step in which a send_command of thread t that was dispatched has
\* its result
CommandEnds(t) ==
    /\ pc[t] \in {"s_except", "s_xfer"}
    /\ pc'[t] \in {"s_initiate", "returned"}

\* C23: every send_command dispatched while Connected is counted in
\* total_commands_sent, and in total_commands_succeeded if it returns True;
\* succeeded never exceeds sent.
C23_CountersFollowCommands ==
    [][/\ \A t \in Callers :
             CommandEnds(t) =>
                /\ total_commands_sent' = total_commands_sent + 1
                /\ total_commands_succeeded' =
                      IF pc'[t] = "returned" /\ ret'[t].val
                      THEN total_commands_succeeded + 1
                      ELSE total_commands_succeeded
       /\ total_commands_succeeded' <= total_commands_sent']_vars

\* C26: the state becomes Reconnecting only from Connected, never from
\* Disconnected, Connecting or Error.
C26_ReconnectingOnlyFromConnected ==
    [][(state' = "reconnecting" /\ state # "reconnecting") =>
          state = "connected"]_vars

\* C27: a disconnect() requested while a reconnection attempt is between
\* two strategies is honoured before the next strategy: while the request
\* waits, the attempt tries no further strategy and does not become
\* Connected.
C27_CancelBetweenStrategies ==
    [][(pc[Admin] = "d_wait" /\ lock = RT) =>
          /\ Len(tried') <= Len(tried)
          /\ state' # "connected"]_vars

\* the colour is six hex digits, leading '#' aside
SixHexDigits(colour) ==
    /\ Len(lstrip(colour)) = 6
    /\ \A i \in 1 .. 6 : IsHexDigit(lstrip(colour)[i])

\* the argument of request r is outside what its setter documents
OutOfRange(r) ==
    \/ r.op = "set_dpi" /\ r.n \notin 100 .. 20000
    \/ r.op = "set_polling_rate" /\ r.n \notin LegalRates
    \/ r.op = "set_lod" /\ r.n \notin 1 .. 3
    \/ r.op = "set_debounce" /\ r.n \notin 2 .. 16
    \/ r.op = "set_rgb" /\ (r.n \notin 0 .. 100 \/ ~SixHexDigits(r.color))

\* the step in which a setter is called
SetterStep(t) ==
    /\ pc[t] = "idle"
    /\ \/ pc'[t] \in {"cs_xfer", "ts_xfer"}
       \/ pc'[t] = "returned" /\ ret'[t].op \in SetterOps

\* C24: a setter of the MouseController of core/controller.py called with an
\* out-of-range value (DPI outside 100..20000, rate outside the four legal
\* ones, lift-off distance outside 1..3, debounce outside 2..16, brightness
\* outside 0..100, a colour that is not six hex digits) returns False, invokes
\* no transfer mechanism and leaves the controller's state and handles as
\* they were.
C24_RejectedBeforeIO ==
    [][(SetterStep(Admin) /\ req.impl = "core" /\ OutOfRange(req)) =>
          /\ pc'[Admin] = "returned"
          /\ ret'[Admin] = Ret(req.op, FALSE)
          /\ inflight'[Admin] = 0
          /\ ctl' = ctl /\ usb' = usb]_vars

\* C25: set_polling_rate of either MouseController, called with a rate
\* outside {125, 250, 500, 1000}, returns False, sends no buffer and never
\* takes the default entry of an encoder's rate table.
C25_IllegalRateNeverEncoded ==
    [][(SetterStep(Admin) /\ req.op = "set_polling_rate"
                          /\ req.n \notin LegalRates) =>
          /\ pc'[Admin] = "returned"
          /\ ret'[Admin] = Ret(req.op, FALSE)
          /\ inflight'[Admin] = 0
          /\ ~req'.fallback /\ req'.buf = Raised]_vars

\* the buffer at hand was built by RazerProtocol.create_report
RazerBuilt == req.buf # Raised /\ req.vendor = "Razer"

DpiAccepted ==
    /\ SetterStep(Admin) /\ req.op = "set_dpi" /\ ctl.connected
    /\ req.vendor = "Razer"
    /\ req.n \in 100 .. 20000

\* C29: for every DPI in 100..20000 RazerProtocol.set_dpi yields a 90-byte
\* buffer with bytes 0..4 = 0, byte 5 = 7, byte 6 = 0x04, byte 7 = 0x05,
\* byte 8 = 0, bytes 9 and 10 both floor(dpi / 100), a value of one byte, and
\* byte 88 the XOR of bytes 2..87; for dpi = 800 bytes 9 and 10 are 8.
C29_DpiEncoding ==
    [][DpiAccepted =>
          /\ Len(req'.buf) = 90
          /\ \A i \in 0 .. 4 : At(req'.buf, i) = 0
          /\ At(req'.buf, 5) = 7
          /\ At(req'.buf, 6) = 4
          /\ At(req'.buf, 7) = 5
          /\ At(req'.buf, 8) = 0
          /\ At(req'.buf, 9) \in Bytes
          /\ 100 * At(req'.buf, 9) <= req.n
          /\ req.n < 100 * (At(req'.buf, 9) + 1)
          /\ At(req'.buf, 10) = At(req'.buf, 9)
          /\ At(req'.buf, 88) = XorRange(req'.buf, 2, 87)
          /\ (req.n = 800 => At(req'.buf, 9) = 8)]_vars

\* set_dpi(19999) has been encoded: bytes 9 and 10 are 199 and the control
\* transfer of the buffer has begun
C29_Witness ==
    /\ req.op = "set_dpi" /\ req.vendor = "Razer" /\ req.n = 19999
    /\ req.buf # Raised /\ At(req.buf, 9) = 199 /\ At(req.buf, 10) = 199
    /\ pc[Admin] = "cs_xfer"

\* the protocol class the controller of request r encodes with
EncoderOf(r) == IF r.impl = "tool" THEN ToolProtocol(r.vendor) ELSE r.vendor

\* set_polling_rate is called on a connected mouse with a legal rate
RateAccepted ==
    /\ SetterStep(Admin) /\ req.op = "set_polling_rate" /\ ctl.connected
    /\ req.n \in LegalRates

\* C30: for each of the six encoders set_poll_rate is total and
\* deterministic on {125, 250, 500, 1000}: a legal rate yields a buffer, it
\* is found in the encoder's table (the default is not taken), the buffers
\* of the other three legal rates differ from it, and a second call with
\* the same rate yields the same buffer.
C30_PollRateTotal ==
    [][RateAccepted =>
          /\ req'.buf # Raised
          /\ ~req'.fallback
          /\ \A r \in LegalRates \ {req.n} :
                set_poll_rate(EncoderOf(req), r) # req'.buf
          /\ (req.buf # Raised => req'.buf = req.buf)]_vars

\* the SteelSeries encoder has encoded 1000 Hz, whose code is the value of
\* its default, from its table, and the device has accepted the buffer
C30_Witness ==
    /\ req.op = "set_polling_rate" /\ req.impl = "core"
    /\ req.vendor = "SteelSeries" /\ req.n = 1000
    /\ req.buf # Raised /\ Len(req.buf) = 64
    /\ At(req.buf, 0) = 33 /\ At(req.buf, 1) = 0
    /\ ~req.fallback
    /\ pc[Admin] = "returned" /\ ret[Admin] = Ret("ctl_send_command", TRUE)

\* the reconnection attempt of the timer thread calls connect()
ReconnectConnects == pc[RT] = "r_connect" /\ pc'[RT] # "r_connect"

\* C33: every reconnection attempt first tears down the controller's
\* handles and then runs connect() over the whole strategy list from the
\* first strategy on, whichever strategy had succeeded before.
C33_ReconnectRedoesAll ==
    [][ReconnectConnects =>
          /\ pc'[RT] = "c_try" /\ conn_i' = 1 /\ tried' = << >>
          /\ controller => (~ctl.device /\ ~ctl.usb_device /\ ~ctl.connected)]_vars

\* C34: whenever the manager's state is Connected its controller is set and
\* reports connected = True.
C34_ConnectedHasLiveController ==
    state = "connected" => (controller /\ ctl.connected)

\* the thread of the first reconnect timer has a pending or a running attempt
AttemptAlive == pc[RT] # "off"

\* C36: at most one reconnection attempt is pending or running: no trigger
\* (a failing send_command, a failing health check, force_reconnect) starts
\* a second reconnect timer while the attempt of an earlier one is pending
\* or running.
C36_OneReconnectAttempt == ~(AttemptAlive /\ second_timer)

\* C35: after MouseController.disconnect() the controller is back in the
\* state its constructor leaves: no HID handle, no USB handle, no claimed
\* interface index and no detached-driver flag, so that the next connect()
\* starts from nothing of the previous connection.
C35_DisconnectResets ==
    usb.torn_down =>
        /\ ~ctl.device /\ ~ctl.usb_device /\ ~ctl.connected
        /\ usb.interface_claimed = None
        /\ ~usb.kernel_driver_detached

\* set_dpi of the core MouseController is called on a connected mouse of
\* vendor v with a DPI its validation accepts
DpiAcceptedFor(v) ==
    /\ SetterStep(Admin) /\ req.op = "set_dpi" /\ ctl.connected
    /\ req.vendor = v
    /\ req.n \in 100 .. 20000

\* C37: for every dpi in 100..20000 LogitechProtocol.set_dpi yields a 64-byte
\* report whose bytes 3..4 hold dpi as a little-endian 16-bit value and whose
\* bytes 5..6 (the Y axis) equal bytes 3..4 (the X axis).
C37_LogitechYEqualsX ==
    [][DpiAcceptedFor("Logitech") =>
          /\ Len(req'.buf) = 64
          /\ At(req'.buf, 3) + 256 * At(req'.buf, 4) = req.n
          /\ At(req'.buf, 5) = At(req'.buf, 3)
          /\ At(req'.buf, 6) = At(req'.buf, 4)]_vars

\* C38: for every dpi in 100..20000 CyberpowerProtocol.set_dpi yields an
\* 8-byte report whose byte 2 is dpi // 50 exactly, without wrap-around.
C38_CyberpowerNoWrap ==
    [][DpiAcceptedFor("CyberpowerPC") =>
          /\ Len(req'.buf) = 8
          /\ At(req'.buf, 2) = req.n \div 50]_vars

\* descriptors a and b have the same (vendor_id, product_id, interface)
SameTriple(a, b) ==
    /\ a.vendor_id = b.vendor_id
    /\ a.product_id = b.product_id
    /\ a.interface = b.interface

\* descriptor d was built from the enumerated entry device
BuiltFrom(d, device) ==
    /\ d.path = device.path
    /\ d.vendor_id = device.vendor_id
    /\ d.product_id = device.product_id
    /\ d.interface = device.interface_number
    /\ d.usage_page = device.usage_page
    /\ d.usage = device.usage

\* C31: scan_devices() never returns two descriptors with the same
\* (vendor_id, product_id, interface) triple, whatever the enumeration
\* yields, repeated entries included; every returned descriptor has a vendor
\* id of VENDOR_IDS and comes from an entry that is_mouse_interface accepts.
C31_ScanDistinctKnownMice ==
    scan.scanned =>
        /\ \A i, j \in DOMAIN scan.result :
              i # j => ~SameTriple(scan.result[i], scan.result[j])
        /\ \A i \in DOMAIN scan.result :
              /\ scan.result[i].vendor_id \in DOMAIN VENDOR_IDS
              /\ \E k \in DOMAIN scan.bus :
                    /\ BuiltFrom(scan.result[i], scan.bus[k])
                    /\ is_mouse_interface(scan.bus[k])

\* a scan has returned two descriptors from an enumeration of three mice of
\* known vendors, two of them the same interface of the same product
C31_Witness ==
    /\ scan.scanned /\ Len(scan.bus) = 3 /\ Len(scan.result) = 2
    /\ \A k \in DOMAIN scan.bus :
          /\ scan.bus[k].vendor_id \in DOMAIN VENDOR_IDS
          /\ is_mouse_interface(scan.bus[k])
    /\ \E i, j \in DOMAIN scan.bus :
          /\ i < j
          /\ DeviceKey(scan.bus[i]) = DeviceKey(scan.bus[j])
          /\ BuiltFrom(scan.result[1], scan.bus[i])

\* the hid library is missing, or the bus query raised
FailedQuery == ~scan.lib \/ scan.fails

\* C32: scan_devices() never raises, and when the hid library is missing or
\* the bus query raises, before or while the enumerated entries are
\* processed, the list it returns is empty.
C32_FailedQueryEmpty ==
    /\ ret[Admin].op = "scan_devices" => ret[Admin].val
    /\ scan.scanned /\ FailedQuery => scan.result = << >>

=============================================================================
